---- MODULE Spec2Model ----
(***************************************************************************)
(* Verification model of the BDWPT evaluation harness:                     *)
(*   - BDWPTController (bdwpt_controller.py): vehicle registry, dispatch   *)
(*     cascade (calculate_power_command) and SoC integration               *)
(*     (update_ev_soc);                                                    *)
(*   - _run_single_simulation_worker (monte_carlo.py): one simulation run; *)
(*   - MonteCarloSimulationFramework (monte_carlo.py): the batch and its   *)
(*     statistical summary;                                                *)
(*   - the seeding rule of _apply_stochastic_variations.                   *)
(*                                                                         *)
(* Fixed-point units (the code computes in floats):                        *)
(*   soc, target_soc, min_soc, willingness, random draws : 1/1000          *)
(*   power                                               : W               *)
(*   battery capacity                                    : kWh             *)
(*   charging efficiency                                 : percent         *)
(*   duration                                            : 1/120 h (30 s)  *)
(*   energy                                              : Wh              *)
(*   voltage                                             : 1/1000 p.u.     *)
(*   grid demand, peaks                                  : W               *)
(*   price                                               : cent/kWh        *)
(***************************************************************************)
EXTENDS Integers, Sequences, FiniteSets, TLC

\* ------------------------------------------------------------------ bounds
\* Number of controller operations explored in one controller lifetime.
MaxCalls == 3

\* Steps of the simulation loop explored in one run (the code runs
\* simulation_hours * time_steps_per_hour of them).
MaxSteps == 2

\* Vehicles handled in one step (the code handles min(num_evs, 15)).
MaxEvsPerStep == 1

\* Repetitions of each scenario in one analysis (runs_per_scenario).
RunsPerScenario == 1
MaxRuns == 2
MaxAnalysisCalls == 2

\* ------------------------------------------------------ program constants
voltage_threshold_low == 950
peak_demand_threshold_mw == 100000
SocFull == 950
DefaultPrice == 20
DefaultMinSoc == 200
simulation_hours == 24
time_steps_per_hour == 2
RngModulus == 1009

\* ----------------------------------------------------------------- helpers
Min2(a, b) == IF a <= b THEN a ELSE b
Max2(a, b) == IF a >= b THEN a ELSE b
Min3(a, b, c) == Min2(a, Min2(b, c))
Abs(x) == IF x < 0 THEN -x ELSE x

\* electricity_prices: hour -> cent/kWh
electricity_prices ==
    <<  8,  8,  8,  8,  8,  8,
       12, 25, 35, 30, 28, 30,
       32, 30, 28, 30, 32, 35,
       40, 38, 30, 25, 15, 10 >>

\* self.electricity_prices.get(current_hour, 0.20)
PriceAt(hour) ==
    IF hour \in 0..23 THEN electricity_prices[hour + 1] ELSE DefaultPrice

\* ------------------------------------------------------- input sample sets
Ids == {"ev_a", "ev_b"}

\* Samples of the ranges initialize_ev draws from (uniform(0.2, 0.9) etc.).
InitSocs == {200, 650, 900}
InitCapacities == {50}
InitMaxPowers == {50000}
InitEfficiencies == {90}
InitStays == {1, 7}
InitTargets == {750}
InitWillingness == {1000}
RegisterHours == {8}

\* Inputs of calculate_power_command: <<local_voltage, grid_demand_mw>>,
\* current_hour and the values of the random draws.
GridInputs == { <<950, 100000>>, <<949, 100000>>, <<950, 100001>> }
DecideHours == {8, 9, 22, 24}
Draws == {399, 600}
NoDraw == 0 - 1

\* Inputs of update_ev_soc (besides the last returned command).
Powers == {-1000000, 1000000}
Durations == {0, 60, 120}

\* Field values of directly constructed EVState objects.
AnyFlags == { <<TRUE, TRUE>>, <<TRUE, FALSE>>, <<FALSE, TRUE>> }
AnySocs == {0, 150, 200, 201, 500, 600, 601, 700, 701, 749, 900, 949, 950, 970}
AnyCapacities == {10, 50}
AnyMaxPowers == {10000, 30000, 50000}
AnyWindows == { <<0, 9>>, <<9, 30>> }
AnyTargets == {750, 950}
AnyMinSocs == {200, 650}
AnyWillingness == {600, 1000}

VARIABLES
    ev_states,                 \* BDWPTController.ev_states: id -> EVState
    total_energy_traded_kwh,   \* Wh
    peak_shaving_achieved_kw,  \* W
    v2g_events,
    g2v_events,
    call,                      \* the last controller operation and its outcome
    ncalls

ctlVars == << ev_states, total_energy_traded_kwh, peak_shaving_achieved_kw,
              v2g_events, g2v_events, call, ncalls >>

\* One run of _run_single_simulation_worker.
VARIABLES
    pc,                  \* "idle", "start", "loop", "done" or "failed"
    scenario,            \* the SimulationScenario of the run
    run_id,
    step,                \* the loop variable
    voltage_history,
    power_flow_history,
    solved_history,      \* per step: did the final runpf succeed
    baseline_peak_mw,
    actual_peak_mw,
    baseline_demand,     \* of the last step
    result               \* the returned SimulationResults

runVars == << pc, scenario, run_id, step, voltage_history, power_flow_history,
              solved_history, baseline_peak_mw, actual_peak_mw, baseline_demand,
              result >>

\* One MonteCarloSimulationFramework and one call of run_monte_carlo_analysis.
VARIABLES
    scenarios,           \* self.scenarios
    parallel,            \* the mode of the analysis
    task,                \* tasks of the analysis completed so far
    pool_results,        \* the list pool.map is building (parallel mode)
    all_results,         \* self.all_results
    results_df,          \* self.results_df
    summary,             \* the value generate_statistical_summary returned
    raised,              \* per task of the analysis: did the worker's run raise
    analysis_calls,      \* calls of run_monte_carlo_analysis on this framework
    bstate               \* "idle", "running", "collected" or "summarized"

batchVars == << scenarios, parallel, task, pool_results, all_results, results_df,
                summary, raised, analysis_calls, bstate >>

\* Two executions of one (scenario, run id) pair.
VARIABLES
    pair,                \* the orchestrator, the pair and how the executions relate
    ex                   \* execution -> its process, generator and what it produced

detVars == << pair, ex >>

\* The network tables of the frameworks: the arrays in memory, and the
\* dictionaries that refer to them.
VARIABLES
    heap,               \* address -> contents of the array stored there
    base_network,       \* self.base_network of the framework
    worker_network,     \* per worker: base_network rebuilt from the task data
    varied_network,     \* per worker: the network of the run
    current_network,    \* per worker: the network of the step
    npc,                \* per worker: its position
    framework,          \* "mc" (monte_carlo.py) or "v2" (monte_carlo_v2.py)
    ev_injected         \* per worker: a step of the run has added EV power

netVars == << heap, base_network, worker_network, varied_network, current_network,
              npc, framework, ev_injected >>

\* One application of a function of the program to given arguments.
VARIABLES
    fcall               \* [op, args, out] of the application; op "none" before it

fnVars == << fcall >>

\* monte_carlo_v2.py: EnhancedMonteCarloFramework.run_analysis and the run it
\* is executing.
VARIABLES
    v2pc,                \* "idle", "start", "loop", "finished" or "aborted"
    use_sumo,            \* self.use_sumo
    v2_task,             \* runs of the analysis that have returned
    v2_step,             \* grid-update steps of the run so far
    v2_voltage_history,  \* voltage_history of the run
    v2_power_history,    \* power_history of the run
    v2_log,              \* per grid-update step: what was passed and solved
    v2_all_results,      \* all_results of run_analysis
    v2_results_df        \* results_df of run_analysis

v2Vars == << v2pc, use_sumo, v2_task, v2_step, v2_voltage_history, v2_power_history,
             v2_log, v2_all_results, v2_results_df >>

otherThanCtl == << runVars, batchVars, detVars, netVars, fnVars, v2Vars >>
otherThanRun == << batchVars, detVars, netVars, fnVars, v2Vars >>

\* ------------------------------------------------------------- EVState
\* The dataclass defaults (EVState(vehicle_id)).
EVStateDefault ==
    [ bdwpt_enabled |-> FALSE, soc |-> 500, battery_capacity_kwh |-> 60,
      max_power_kw |-> 50000, charging_efficiency |-> 95, is_connected |-> TRUE,
      charging_power_kw |-> 0, arrival_time |-> 0, departure_time |-> 24,
      target_soc |-> 800, min_soc |-> DefaultMinSoc,
      participation_willingness |-> 800 ]

\* The EVState initialize_ev builds from its draws.
NewEV(enabled, hour, soc, cap, maxp, eff, stay, target, will) ==
    [ EVStateDefault EXCEPT
        !.bdwpt_enabled = enabled,
        !.soc = soc,
        !.battery_capacity_kwh = cap,
        !.max_power_kw = maxp,
        !.charging_efficiency = eff,
        !.arrival_time = hour,
        !.departure_time = Min2(24, hour + stay),
        !.target_soc = target,
        !.participation_willingness = IF enabled THEN will ELSE 0 ]

Counters ==
    [ total_energy_traded_kwh |-> total_energy_traded_kwh,
      peak_shaving_achieved_kw |-> peak_shaving_achieved_kw,
      v2g_events |-> v2g_events,
      g2v_events |-> g2v_events ]

NoCall ==
    [ op |-> "init", id |-> "", known |-> FALSE, before |-> EVStateDefault,
      c0 |-> [ total_energy_traded_kwh |-> 0, peak_shaving_achieved_kw |-> 0,
               v2g_events |-> 0, g2v_events |-> 0 ],
      voltage |-> 0, hour |-> 0, demand |-> 0, draw4 |-> NoDraw, draw6 |-> NoDraw,
      power |-> 0, dt |-> 0, ret |-> 0, rule |-> 0, draws |-> 0 ]

\* ------------------------------------------- calculate_power_command rules
GatedIgnoringConnection(ev) == ~ev.bdwpt_enabled

\* rule 1: not enrolled or not connected
Gated(ev) == ~ev.bdwpt_enabled \/ ~ev.is_connected

\* rule 1: current_hour outside [arrival_time, departure_time)
OutsideWindow(ev, hour) == hour < ev.arrival_time \/ hour >= ev.departure_time

EmergencyPowerFixed(ev) == 30000

EmergencyPowerUncapped(ev) == (ev.max_power_kw * 8) \div 10

\* rule 2: min(ev.max_power_kw * 0.8, 30.0)
EmergencyPower(ev) == Min2((ev.max_power_kw * 8) \div 10, 30000)

IsFullAtOne(ev) == ev.soc >= 1000

\* rule 3: ev.soc >= 0.95
IsFull(ev) == ev.soc >= SocFull

GridSupportNeededBoth(voltage, demand) ==
    voltage < voltage_threshold_low /\ demand > peak_demand_threshold_mw

\* rule 4: voltage_violation or demand_violation
GridSupportNeeded(voltage, demand) ==
    voltage < voltage_threshold_low \/ demand > peak_demand_threshold_mw

\* rule 4: -min(min(0.6 max_power, (soc - min_soc) capacity 2), 25.0)
SupportDischargePower(ev) ==
    -Min2(Min2((ev.max_power_kw * 6) \div 10,
               (ev.soc - ev.min_soc) * ev.battery_capacity_kwh * 2),
          25000)

\* rule 5: min(0.8 max_power, (target_soc - soc) capacity 2, 40.0)
OpportunisticPower(ev) ==
    Min3((ev.max_power_kw * 8) \div 10,
         (ev.target_soc - ev.soc) * ev.battery_capacity_kwh * 2,
         40000)

\* rule 6: -min(0.5 max_power, 20.0)
ArbitragePower(ev) == -Min2((ev.max_power_kw * 5) \div 10, 20000)

TricklePowerFast(ev) == Min2(15000, (ev.max_power_kw * 8) \div 10)

\* rule 7: min(15.0, 0.3 max_power)
TricklePower(ev) == Min2(15000, (ev.max_power_kw * 3) \div 10)

\* The first draw is taken only when the left operand of `and` is true.
DrawsSupport(ev, voltage, demand) ==
    GridSupportNeeded(voltage, demand) /\ ev.soc > 600

\* The arbitrage draw is the last operand of its `and` chain.
DrawsArbitrage(ev, price) ==
    price > 30 /\ ev.soc > 700 /\ ev.participation_willingness > 600

Outcome(ret, rule, ev, g2v, v2g, peak, use4, use6) ==
    [ ret |-> ret, rule |-> rule, ev |-> ev, g2v |-> g2v, v2g |-> v2g,
      peak |-> peak, use4 |-> use4, use6 |-> use6 ]

Store(ev, power) == [ ev EXCEPT !.charging_power_kw = power ]

\* Rules 5-8, reached when rule 4 issued no command.
EconomicTail(ev, price, use4, d6) ==
    IF price < 20 /\ ev.soc < ev.target_soc
    THEN Outcome(OpportunisticPower(ev), 5, Store(ev, OpportunisticPower(ev)),
                 1, 0, 0, use4, FALSE)
    ELSE IF ~(price < 20) /\ DrawsArbitrage(ev, price) /\ d6 < 400
    THEN Outcome(ArbitragePower(ev), 6, Store(ev, ArbitragePower(ev)),
                 0, 1, 0, use4, TRUE)
    ELSE IF ev.soc < ev.target_soc
    THEN Outcome(TricklePower(ev), 7, Store(ev, TricklePower(ev)),
                 0, 0, 0, use4, ~(price < 20) /\ DrawsArbitrage(ev, price))
    ELSE Outcome(0, 8, Store(ev, 0),
                 0, 0, 0, use4, ~(price < 20) /\ DrawsArbitrage(ev, price))

\* calculate_power_command for a vehicle that is in the registry.  d4 and d6
\* are the values the next np.random.random() calls return if they are made.
Cascade(ev, voltage, hour, demand, d4, d6) ==
    IF Gated(ev)
    THEN Outcome(0, 1, ev, 0, 0, 0, FALSE, FALSE)
    ELSE IF OutsideWindow(ev, hour)
    THEN Outcome(0, 1, [ ev EXCEPT !.is_connected = FALSE ], 0, 0, 0, FALSE, FALSE)
    ELSE IF ev.soc <= ev.min_soc
    THEN Outcome(EmergencyPower(ev), 2, Store(ev, EmergencyPower(ev)),
                 1, 0, 0, FALSE, FALSE)
    ELSE IF IsFull(ev)
    THEN Outcome(0, 3, Store(ev, 0), 0, 0, 0, FALSE, FALSE)
    ELSE IF DrawsSupport(ev, voltage, demand) /\ d4 < ev.participation_willingness
    THEN Outcome(SupportDischargePower(ev), 4, Store(ev, SupportDischargePower(ev)),
                 0, 1, Abs(SupportDischargePower(ev)), TRUE, FALSE)
    ELSE EconomicTail(ev, PriceAt(hour), DrawsSupport(ev, voltage, demand), d6)

\* ---------------------------------------------------------- update_ev_soc
\* energy_kwh = power_kw * time_step_hours * ev.charging_efficiency
ChargeEnergy(ev, power, dt) ==
    (((power * dt) \div 12) * ev.charging_efficiency) \div 1000

\* energy_kwh = abs(power_kw) * time_step_hours / ev.charging_efficiency
DischargeEnergy(ev, power, dt) ==
    (Abs(power) * dt * 5) \div (6 * ev.charging_efficiency)

\* soc_change = energy_kwh / ev.battery_capacity_kwh
SocChange(ev, energy) == energy \div ev.battery_capacity_kwh

\* ev.soc = min(1.0, ev.soc + soc_change)
SocAfterCharge(ev, energy) == Min2(1000, ev.soc + SocChange(ev, energy))

SocAfterDischargeUnclamped(ev, energy) == ev.soc - SocChange(ev, energy)

\* ev.soc = max(0.0, ev.soc - soc_change)
SocAfterDischarge(ev, energy) == Max2(0, ev.soc - SocChange(ev, energy))

EnergyThatFits(ev, power, dt) ==
    IF power > 0
    THEN Min2(ChargeEnergy(ev, power, dt), (1000 - ev.soc) * ev.battery_capacity_kwh)
    ELSE Min2(DischargeEnergy(ev, power, dt), ev.soc * ev.battery_capacity_kwh)

\* energy_kwh of one update_ev_soc call with power_kw # 0
EnergyOf(ev, power, dt) ==
    IF power > 0 THEN ChargeEnergy(ev, power, dt) ELSE DischargeEnergy(ev, power, dt)

\* ev.soc after one update_ev_soc call with power_kw # 0
SocAfter(ev, power, dt) ==
    IF power > 0 THEN SocAfterCharge(ev, EnergyOf(ev, power, dt))
    ELSE SocAfterDischarge(ev, EnergyOf(ev, power, dt))

\* ------------------------------------------------------------- operations
\* BDWPTController.initialize_ev: stores a fresh EVState under vehicle_id.
Register ==
    /\ ncalls < MaxCalls
    /\ \E id \in Ids, enabled \in BOOLEAN, hour \in RegisterHours,
          soc \in InitSocs, cap \in InitCapacities, maxp \in InitMaxPowers,
          eff \in InitEfficiencies, stay \in InitStays, target \in InitTargets,
          will \in InitWillingness :
          LET known == id \in DOMAIN ev_states
              ev == NewEV(enabled, hour, soc, cap, maxp, eff, stay, target, will)
          IN  /\ ev_states' = [ x \in DOMAIN ev_states \cup {id} |->
                                  IF x = id THEN ev ELSE ev_states[x] ]
              /\ call' = [ NoCall EXCEPT
                             !.op = "register", !.id = id, !.known = known,
                             !.before = IF known THEN ev_states[id] ELSE EVStateDefault,
                             !.c0 = Counters, !.hour = hour,
                             !.draws = IF enabled THEN 7 ELSE 6 ]
    /\ ncalls' = ncalls + 1
    /\ UNCHANGED << total_energy_traded_kwh, peak_shaving_achieved_kw,
                    v2g_events, g2v_events >>
    /\ UNCHANGED otherThanCtl

\* BDWPTController.calculate_power_command
Decide ==
    /\ ncalls < MaxCalls
    /\ \E id \in Ids, grid \in GridInputs, hour \in DecideHours,
          d4 \in Draws, d6 \in Draws :
          LET voltage == grid[1]
              demand == grid[2]
              known == id \in DOMAIN ev_states
              ev == IF known THEN ev_states[id] ELSE EVStateDefault
              r == Cascade(ev, voltage, hour, demand, d4, d6)
          IN  IF ~known
              THEN /\ call' = [ NoCall EXCEPT
                                  !.op = "decide", !.id = id, !.c0 = Counters,
                                  !.voltage = voltage, !.hour = hour,
                                  !.demand = demand ]
                   /\ UNCHANGED << ev_states, peak_shaving_achieved_kw,
                                   v2g_events, g2v_events >>
              ELSE /\ ev_states' = [ ev_states EXCEPT ![id] = r.ev ]
                   /\ g2v_events' = g2v_events + r.g2v
                   /\ v2g_events' = v2g_events + r.v2g
                   /\ peak_shaving_achieved_kw' = peak_shaving_achieved_kw + r.peak
                   /\ call' = [ NoCall EXCEPT
                                  !.op = "decide", !.id = id, !.known = TRUE,
                                  !.before = ev, !.c0 = Counters,
                                  !.voltage = voltage, !.hour = hour,
                                  !.demand = demand,
                                  !.draw4 = IF r.use4 THEN d4 ELSE NoDraw,
                                  !.draw6 = IF r.use6 THEN d6 ELSE NoDraw,
                                  !.ret = r.ret, !.rule = r.rule,
                                  !.draws = (IF r.use4 THEN 1 ELSE 0)
                                            + (IF r.use6 THEN 1 ELSE 0) ]
    /\ ncalls' = ncalls + 1
    /\ UNCHANGED total_energy_traded_kwh
    /\ UNCHANGED otherThanCtl

\* BDWPTController.update_ev_soc
ApplySoc ==
    /\ ncalls < MaxCalls
    /\ \E id \in Ids, power \in Powers \cup {call.ret}, dt \in Durations :
          LET known == id \in DOMAIN ev_states
              ev == IF known THEN ev_states[id] ELSE EVStateDefault
          IN  /\ call' = [ NoCall EXCEPT
                             !.op = "applySoc", !.id = id, !.known = known,
                             !.before = ev, !.c0 = Counters,
                             !.power = power, !.dt = dt ]
              /\ IF ~known \/ power = 0
                 THEN UNCHANGED << ev_states, total_energy_traded_kwh >>
                 ELSE /\ ev_states' = [ ev_states EXCEPT
                                          ![id].soc = SocAfter(ev, power, dt) ]
                      /\ total_energy_traded_kwh' =
                             total_energy_traded_kwh + EnergyOf(ev, power, dt)
    /\ ncalls' = ncalls + 1
    /\ UNCHANGED << peak_shaving_achieved_kw, v2g_events, g2v_events >>
    /\ UNCHANGED otherThanCtl

\* BDWPTController.__init__
CtlInit ==
    /\ ev_states = << >>
    /\ total_energy_traded_kwh = 0
    /\ peak_shaving_achieved_kw = 0
    /\ v2g_events = 0
    /\ g2v_events = 0
    /\ call = NoCall
    /\ ncalls = 0

\* ===================================== monte_carlo.py: one simulation run
\* MonteCarloSimulationFramework.__init__: the scenarios of the framework
\* (penetrations in 1/1000).
SimulationScenario(bdwpt, traffic, day, weather, pv, name) ==
    [ bdwpt_penetration |-> bdwpt, traffic_density |-> traffic, day_type |-> day,
      weather_condition |-> weather, pv_penetration |-> pv, scenario_name |-> name ]

FrameworkScenarios ==
    << SimulationScenario(0, "medium", "weekday", "clear", 300, "Baseline"),
       SimulationScenario(150, "medium", "weekday", "clear", 300, "Low_BDWPT"),
       SimulationScenario(400, "medium", "weekday", "clear", 300, "High_BDWPT") >>

NoScenario == SimulationScenario(0, "", "", "", 0, "")

\* Total active demand (W) of the network returned by update_loads_for_time
\* and add_pv_generation, at hour 18 and at the hour of a step.
BaselineLoads == {110000}
StepLoads == {120000}

\* min(results['bus'][:, 7]) of a converged power flow.
SolvedVoltages == {1000}

\* Values recorded when a power flow does not converge.
FallbackDemand == 100000
FallbackVoltage == 900
InitialVoltage == 1000

\* np.random.poisson(1) in _simulate_traffic_pattern.
PoissonDraws == {0}

\* The values np.random.random() returns for one vehicle of a step:
\* <<enrolment draw, rule-4 draw, rule-6 draw>>.
StepDraws == { <<100, 399, 399>>, <<100, 600, 600>>, <<600, 399, 399>> }

\* The EVState initialize_ev draws for a vehicle of a run.
RunVehicle(enabled, hour) == NewEV(enabled, hour, 650, 50, 50000, 90, 1, 750, 600)

total_steps == Min2(simulation_hours * time_steps_per_hour, MaxSteps)

\* time_step_hours = 1.0 / time_steps_per_hour
time_step_hours == 120 \div time_steps_per_hour

base_traffic(traffic_density) ==
    IF traffic_density = "low" THEN 2
    ELSE IF traffic_density = "medium" THEN 5
    ELSE IF traffic_density = "high" THEN 10
    ELSE 5

\* The hour multiplier of _simulate_traffic_pattern, times 10.
traffic_multiplier(hour) ==
    IF (7 <= hour /\ hour <= 9) \/ (17 <= hour /\ hour <= 19) THEN 20
    ELSE IF 22 <= hour /\ hour <= 6 THEN 2
    ELSE IF 10 <= hour /\ hour <= 16 THEN 12
    ELSE 8

\* _simulate_traffic_pattern: max(0, int(base_count * multiplier + poisson))
simulate_traffic_pattern(hour, traffic_density, poisson) ==
    Max2(0, (base_traffic(traffic_density) * traffic_multiplier(hour) + poisson * 10)
                \div 10)

Range(s) == { s[i] : i \in 1..Len(s) }
SeqMin(s) == CHOOSE x \in Range(s) : \A y \in Range(s) : x <= y
SeqMax(s) == CHOOSE x \in Range(s) : \A y \in Range(s) : x >= y

RECURSIVE SumSoc(_, _)
SumSoc(evs, ids) ==
    IF ids = {} THEN 0
    ELSE LET id == CHOOSE x \in ids : TRUE
         IN  evs[id].soc + SumSoc(evs, ids \ {id})

\* The controller of a run, as a value.
Controller ==
    [ ev_states |-> ev_states,
      total_energy_traded_kwh |-> total_energy_traded_kwh,
      peak_shaving_achieved_kw |-> peak_shaving_achieved_kw,
      v2g_events |-> v2g_events, g2v_events |-> g2v_events ]

PreviousController == Controller

\* bdwpt_controller = BDWPTController()
NewController ==
    [ ev_states |-> << >>, total_energy_traded_kwh |-> 0,
      peak_shaving_achieved_kw |-> 0, v2g_events |-> 0, g2v_events |-> 0 ]

\* BDWPTController.get_performance_metrics (rate in 1/1000)
get_performance_metrics(c) ==
    LET ids == DOMAIN c.ev_states
        bdwpt_vehicles == Cardinality({ id \in ids : c.ev_states[id].bdwpt_enabled })
    IN  [ avg_final_soc |-> IF ids # {} THEN SumSoc(c.ev_states, ids) \div Cardinality(ids)
                            ELSE 500,
          total_energy_traded_kwh |-> c.total_energy_traded_kwh,
          v2g_participation_rate |-> (c.v2g_events * 1000) \div Max2(bdwpt_vehicles, 1) ]

PeakShavingSigned(baseline_peak, actual_peak) == baseline_peak - actual_peak

\* peak_shaving_achieved_mw = max(0, baseline_peak_mw - actual_peak_mw)
PeakShaving(baseline_peak, actual_peak) == Max2(0, baseline_peak - actual_peak)

\* grid_savings = peak_shaving_achieved_mw * 1000 * 0.35  (cents)
GridSavings(peak_shaving) == (peak_shaving * 35) \div 1000

\* ev_revenue = total_energy_traded_kwh * 0.15 * 0.5  (cents)
EvRevenue(energy) == (energy * 75) \div 10000

\* np.sum((voltages < 0.95) | (voltages > 1.05))
VoltageViolations(vh) ==
    Cardinality({ i \in 1..Len(vh) : vh[i] < 950 \/ vh[i] > 1050 })

\* sum(1 for p in power_flow_history if p < 0)
ReverseFlowHours(ph) == Cardinality({ i \in 1..Len(ph) : ph[i] < 0 })

\* _calculate_simulation_metrics
calculate_simulation_metrics(scn, rid, vh, ph, baseline_peak, actual_peak, c) ==
    LET m == get_performance_metrics(c)
    IN  [ scenario_name |-> scn.scenario_name,
          run_id |-> rid,
          min_voltage_pu |-> IF Len(vh) > 0 THEN SeqMin(vh) ELSE 1000,
          max_voltage_pu |-> IF Len(vh) > 0 THEN SeqMax(vh) ELSE 1000,
          voltage_violations |-> VoltageViolations(vh),
          peak_demand_mw |-> actual_peak,
          peak_shaving_achieved_mw |-> PeakShaving(baseline_peak, actual_peak),
          reverse_power_flow_hours |-> ReverseFlowHours(ph),
          total_energy_traded_mwh |-> m.total_energy_traded_kwh,
          avg_ev_soc_end |-> m.avg_final_soc,
          v2g_utilization |-> m.v2g_participation_rate,
          grid_cost_savings |-> GridSavings(PeakShaving(baseline_peak, actual_peak)),
          ev_owner_revenue |-> EvRevenue(m.total_energy_traded_kwh) ]

FailedResultZeroed(scn, rid) ==
    [ scenario_name |-> scn.scenario_name, run_id |-> rid, min_voltage_pu |-> 0,
      max_voltage_pu |-> 0, voltage_violations |-> 0, peak_demand_mw |-> 0,
      peak_shaving_achieved_mw |-> 0, reverse_power_flow_hours |-> 0,
      total_energy_traded_mwh |-> 0, avg_ev_soc_end |-> 0, v2g_utilization |-> 0,
      grid_cost_savings |-> 0, ev_owner_revenue |-> 0 ]

\* _create_failed_result (the fields it does not pass keep their defaults)
create_failed_result(scn, rid) ==
    [ scenario_name |-> scn.scenario_name,
      run_id |-> rid,
      min_voltage_pu |-> 1000,
      max_voltage_pu |-> 1000,
      voltage_violations |-> 0,
      peak_demand_mw |-> 100000,
      peak_shaving_achieved_mw |-> 0,
      reverse_power_flow_hours |-> 0,
      total_energy_traded_mwh |-> 0,
      avg_ev_soc_end |-> 500,
      v2g_utilization |-> 0,
      grid_cost_savings |-> 0,
      ev_owner_revenue |-> 0 ]

NoResult == create_failed_result(NoScenario, 0 - 1)

\* One pass of the vehicle loop body: register if new, ask the controller,
\* add a non-zero command to the network, integrate the soc.  c carries the
\* controller and the EV power added to the network so far.
ProcessVehicle(c, veh_id, hour, pen, voltage, demand, d) ==
    LET known == veh_id \in DOMAIN c.ev_states
        ev0 == IF known THEN c.ev_states[veh_id] ELSE RunVehicle(d[1] < pen, hour)
        r == Cascade(ev0, voltage, hour, demand, d[2], d[3])
        ev1 == IF r.ret = 0 THEN r.ev
               ELSE [ r.ev EXCEPT !.soc = SocAfter(r.ev, r.ret, time_step_hours) ]
    IN  [ ev_states |-> [ x \in DOMAIN c.ev_states \cup {veh_id} |->
                            IF x = veh_id THEN ev1 ELSE c.ev_states[x] ],
          total_energy_traded_kwh |->
              c.total_energy_traded_kwh
                  + (IF r.ret = 0 THEN 0 ELSE EnergyOf(r.ev, r.ret, time_step_hours)),
          peak_shaving_achieved_kw |-> c.peak_shaving_achieved_kw + r.peak,
          v2g_events |-> c.v2g_events + r.v2g,
          g2v_events |-> c.g2v_events + r.g2v,
          total_ev_power_mw |-> c.total_ev_power_mw + r.ret ]

\* for ev_id in range(min(num_evs, 15)), from ev_id on
RECURSIVE VehicleLoop(_, _, _, _, _, _, _, _, _)
VehicleLoop(c, ev_id, n, stp, hour, pen, voltage, demand, draws) ==
    IF ev_id >= n THEN c
    ELSE VehicleLoop(ProcessVehicle(c, << stp, ev_id >>, hour, pen, voltage, demand,
                                    draws[ev_id + 1]),
                     ev_id + 1, n, stp, hour, pen, voltage, demand, draws)

RunIdle ==
    /\ pc = "idle"
    /\ scenario = NoScenario
    /\ run_id = 0
    /\ step = 0
    /\ voltage_history = << >>
    /\ power_flow_history = << >>
    /\ solved_history = << >>
    /\ baseline_peak_mw = 0
    /\ actual_peak_mw = 0
    /\ baseline_demand = 0
    /\ result = NoResult

\* Worker entry up to the first loop iteration: the controller is created,
\* the histories and peaks are initialised and the reference power flow for
\* hour 18 is solved.
RunSetup ==
    /\ pc = "start"
    /\ \E load \in BaselineLoads, baseline_success \in BOOLEAN :
          baseline_peak_mw' = IF baseline_success THEN load ELSE 0
    /\ ev_states' = NewController.ev_states
    /\ total_energy_traded_kwh' = NewController.total_energy_traded_kwh
    /\ peak_shaving_achieved_kw' = NewController.peak_shaving_achieved_kw
    /\ v2g_events' = NewController.v2g_events
    /\ g2v_events' = NewController.g2v_events
    /\ voltage_history' = << >>
    /\ power_flow_history' = << >>
    /\ solved_history' = << >>
    /\ actual_peak_mw' = 0
    /\ step' = 0
    /\ pc' = "loop"
    /\ UNCHANGED << scenario, run_id, baseline_demand, result, call, ncalls >>
    /\ UNCHANGED otherThanRun

\* The worker's locals and its controller, as a value.
RunState ==
    Controller @@
    [ step |-> step, voltage_history |-> voltage_history,
      power_flow_history |-> power_flow_history, solved_history |-> solved_history,
      actual_peak_mw |-> actual_peak_mw, baseline_demand |-> baseline_demand ]

\* The inputs of one loop iteration: the network load of the hour, the outcome
\* of the two power flows, the Poisson draw and the draws of each vehicle.
StepInput(load, no_ev_success, poisson, success, min_voltage, draws) ==
    [ load |-> load, no_ev_success |-> no_ev_success, poisson |-> poisson,
      success |-> success, min_voltage |-> min_voltage, draws |-> draws ]

\* min(num_evs, 15) of the step r.step
VehiclesOfStep(r, scn, poisson) ==
    Min2(simulate_traffic_pattern(r.step \div time_steps_per_hour,
                                  scn.traffic_density, poisson),
         MaxEvsPerStep)

RecordVoltageIfSolved(vh, success, min_voltage) ==
    IF success THEN Append(vh, min_voltage) ELSE vh

\* voltage_history.append(min_voltage) / voltage_history.append(0.9)
RecordVoltage(vh, success, min_voltage) ==
    Append(vh, IF success THEN min_voltage ELSE FallbackVoltage)

\* power_flow_history.append(total_demand_mw) / .append(baseline_demand)
RecordDemand(ph, success, total_demand, fallback) ==
    Append(ph, IF success THEN total_demand ELSE fallback)

\* One iteration of the main loop (body of `for step in range(total_steps)`).
StepOutcome(r, scn, inp) ==
    LET current_hour == r.step \div time_steps_per_hour
        demand0 == IF inp.no_ev_success THEN inp.load ELSE FallbackDemand
        local_voltage == IF Len(r.voltage_history) > 0
                         THEN r.voltage_history[Len(r.voltage_history)]
                         ELSE InitialVoltage
        c == VehicleLoop([ ev_states |-> r.ev_states,
                           total_energy_traded_kwh |-> r.total_energy_traded_kwh,
                           peak_shaving_achieved_kw |-> r.peak_shaving_achieved_kw,
                           v2g_events |-> r.v2g_events,
                           g2v_events |-> r.g2v_events,
                           total_ev_power_mw |-> 0 ],
                         0, VehiclesOfStep(r, scn, inp.poisson), r.step, current_hour,
                         scn.bdwpt_penetration, local_voltage, demand0, inp.draws)
        total_demand_mw == inp.load + c.total_ev_power_mw
    IN  [ ev_states |-> c.ev_states,
          total_energy_traded_kwh |-> c.total_energy_traded_kwh,
          peak_shaving_achieved_kw |-> c.peak_shaving_achieved_kw,
          v2g_events |-> c.v2g_events,
          g2v_events |-> c.g2v_events,
          step |-> r.step + 1,
          baseline_demand |-> demand0,
          solved_history |-> Append(r.solved_history, inp.success),
          voltage_history |->
              RecordVoltage(r.voltage_history, inp.success, inp.min_voltage),
          power_flow_history |->
              RecordDemand(r.power_flow_history, inp.success, total_demand_mw, demand0),
          actual_peak_mw |->
              IF inp.success THEN Max2(r.actual_peak_mw, total_demand_mw)
              ELSE r.actual_peak_mw ]

\* The loop condition of `for step in range(total_steps)`.
MoreSteps == pc = "loop" /\ step < total_steps
LoopOver == pc = "loop" /\ step = total_steps

RunStep ==
    /\ MoreSteps
    /\ \E load \in StepLoads, no_ev_success \in BOOLEAN, poisson \in PoissonDraws,
          success \in BOOLEAN, min_voltage \in SolvedVoltages :
          \E draws \in [ 1..VehiclesOfStep(RunState, scenario, poisson) -> StepDraws ] :
             \E r \in { StepOutcome(RunState, scenario,
                                      StepInput(load, no_ev_success, poisson, success,
                                                min_voltage, draws)) } :
                 /\ ev_states' = r.ev_states
                 /\ total_energy_traded_kwh' = r.total_energy_traded_kwh
                 /\ peak_shaving_achieved_kw' = r.peak_shaving_achieved_kw
                 /\ v2g_events' = r.v2g_events
                 /\ g2v_events' = r.g2v_events
                 /\ step' = r.step
                 /\ baseline_demand' = r.baseline_demand
                 /\ solved_history' = r.solved_history
                 /\ voltage_history' = r.voltage_history
                 /\ power_flow_history' = r.power_flow_history
                 /\ actual_peak_mw' = r.actual_peak_mw
    /\ UNCHANGED << pc, scenario, run_id, baseline_peak_mw, result, call, ncalls >>
    /\ UNCHANGED otherThanRun

\* After the loop: _calculate_simulation_metrics and return.
RunFinalize ==
    /\ LoopOver
    /\ result' = calculate_simulation_metrics(scenario, run_id, voltage_history,
                                              power_flow_history, baseline_peak_mw,
                                              actual_peak_mw, Controller)
    /\ pc' = "done"
    /\ UNCHANGED << ctlVars, scenario, run_id, step, voltage_history,
                    power_flow_history, solved_history, baseline_peak_mw,
                    actual_peak_mw, baseline_demand >>
    /\ UNCHANGED otherThanRun

\* An import error, or an exception anywhere between the worker's try and its
\* return: _create_failed_result.  (RealisticLVNetworkBuilder() is one place
\* that can raise: network_builder.py line 14 uses NZDistributionNetworkData,
\* a name the module does not import.)  The worker returns from its except
\* branch, so its histories and peaks are gone.
RunFail ==
    /\ pc \in {"start", "loop"}
    /\ result' = create_failed_result(scenario, run_id)
    /\ pc' = "failed"
    /\ step' = 0
    /\ voltage_history' = << >>
    /\ power_flow_history' = << >>
    /\ solved_history' = << >>
    /\ baseline_peak_mw' = 0
    /\ actual_peak_mw' = 0
    /\ baseline_demand' = 0
    /\ UNCHANGED << ctlVars, scenario, run_id >>
    /\ UNCHANGED otherThanRun

\* _run_sequential_simulations: the worker has returned and is called for
\* the next run id in the same process.  The controller of the run that
\* ended is still what the controller variables hold until the new call
\* builds its own.
RunNext ==
    /\ pc \in {"done", "failed"}
    /\ run_id + 1 < MaxRuns
    /\ run_id' = run_id + 1
    /\ pc' = "start"
    /\ step' = 0
    /\ voltage_history' = << >>
    /\ power_flow_history' = << >>
    /\ solved_history' = << >>
    /\ baseline_peak_mw' = 0
    /\ actual_peak_mw' = 0
    /\ baseline_demand' = 0
    /\ result' = NoResult
    /\ UNCHANGED << ctlVars, scenario >>
    /\ UNCHANGED otherThanRun

\* ============================ monte_carlo.py: MonteCarloSimulationFramework
\* The worker as a function of what its collaborators and draws give it: it
\* raises, or it solves the reference power flow and runs every step on the
\* same step input.
WorkerPlan(raises, baseline_load, baseline_success, inp) ==
    [ raises |-> raises, baseline_load |-> baseline_load,
      baseline_success |-> baseline_success, inp |-> inp ]

\* The day types self.load_profiles['residential'] has a profile for.
DayTypes == {"weekday", "weekend"}

\* The worker ends in its except branch: a collaborator raised, or
\* update_loads_for_time looked up a day type that has no load profile.
WorkerRaises(scn, plan) == plan.raises \/ scn.day_type \notin DayTypes

\* The worker's locals after its setup.
RunStart ==
    NewController @@
    [ step |-> 0, voltage_history |-> << >>, power_flow_history |-> << >>,
      solved_history |-> << >>, actual_peak_mw |-> 0, baseline_demand |-> 0 ]

\* for step in range(total_steps), from r.step on
RECURSIVE StepLoop(_, _, _)
StepLoop(r, scn, inp) ==
    IF r.step >= total_steps THEN r
    ELSE StepLoop(StepOutcome(r, scn, inp), scn, inp)

\* _run_single_simulation_worker((scenario, run_id, network))
run_single_simulation_worker(scn, rid, plan) ==
    IF WorkerRaises(scn, plan) THEN create_failed_result(scn, rid)
    ELSE LET r == StepLoop(RunStart, scn, plan.inp)
         IN  calculate_simulation_metrics(
                 scn, rid, r.voltage_history, r.power_flow_history,
                 IF plan.baseline_success THEN plan.baseline_load ELSE 0,
                 r.actual_peak_mw, r)

\* Every vehicle of a step gets the draws d.
SameDraws(d) == [ i \in 1..MaxEvsPerStep |-> d ]

WorkerPlans ==
    { WorkerPlan(TRUE, 110000, TRUE,
                 StepInput(120000, TRUE, 0, TRUE, 1000, SameDraws(<<100, 399, 399>>))),
      WorkerPlan(FALSE, 110000, TRUE,
                 StepInput(120000, TRUE, 0, TRUE, 1000, SameDraws(<<100, 399, 399>>))),
      WorkerPlan(FALSE, 110000, TRUE,
                 StepInput(120000, TRUE, 0, TRUE, 1000, SameDraws(<<100, 600, 600>>))),
      WorkerPlan(FALSE, 110000, TRUE,
                 StepInput(120000, TRUE, 0, FALSE, 1000, SameDraws(<<100, 399, 399>>))),
      WorkerPlan(FALSE, 110000, FALSE,
                 StepInput(120000, TRUE, 0, TRUE, 1000, SameDraws(<<100, 399, 399>>))) }

\* self.scenarios: the constructor's list, or a list the caller assigned
\* (main_v2.py keeps a single scenario of the list).
MalformedScenario ==
    SimulationScenario(1500, "gridlock", "weekday", "storm", 300, "Malformed")

ScenarioLists ==
    { FrameworkScenarios,
      << FrameworkScenarios[3] >>,
      << FrameworkScenarios[2], FrameworkScenarios[3] >>,
      << MalformedScenario >> }

\* self.runs_per_scenario
runs_per_scenario == RunsPerScenario

NumTasks == Len(scenarios) * runs_per_scenario

NoDataFrame == [ created |-> FALSE, rows |-> << >> ]

RECURSIVE SeqSum(_)
SeqSum(s) == IF Len(s) = 0 THEN 0 ELSE Head(s) + SeqSum(Tail(s))

\* scenario_data[column].mean()
Mean(s) == SeqSum(s) \div Len(s)

\* self.results_df[self.results_df['scenario_name'] == scenario_name]
ScenarioData(rows, scenario_name) ==
    SelectSeq(rows, LAMBDA row : row.scenario_name = scenario_name)

Column(rows, field) == [ i \in 1..Len(rows) |-> rows[i][field] ]

\* The summary entry of one scenario (the means; the standard deviations are
\* left out).
ScenarioSummary(scenario_data) ==
    [ min_voltage_mean |-> Mean(Column(scenario_data, "min_voltage_pu")),
      voltage_violations_mean |-> Mean(Column(scenario_data, "voltage_violations")),
      peak_shaving_mean_mw |-> Mean(Column(scenario_data, "peak_shaving_achieved_mw")),
      grid_savings_mean |-> Mean(Column(scenario_data, "grid_cost_savings")),
      ev_revenue_mean |-> Mean(Column(scenario_data, "ev_owner_revenue")),
      final_soc_mean |-> Mean(Column(scenario_data, "avg_ev_soc_end")),
      v2g_utilization_mean |-> Mean(Column(scenario_data, "v2g_utilization")) ]

BatchIdle ==
    /\ scenarios = << >>
    /\ parallel = FALSE
    /\ task = 0
    /\ pool_results = << >>
    /\ all_results = << >>
    /\ results_df = NoDataFrame
    /\ summary = << >>
    /\ raised = << >>
    /\ analysis_calls = 0
    /\ bstate = "idle"

\* One task of run_monte_carlo_analysis: the worker runs the next
\* (scenario, run_id) of the nested loops and its result is appended to
\* self.all_results (sequential) or to pool.map's list (parallel).
BatchRunTask ==
    /\ bstate = "running"
    /\ task < NumTasks
    /\ \E plan \in WorkerPlans :
          LET scn == scenarios[(task \div runs_per_scenario) + 1]
              rid == task % runs_per_scenario
              res == run_single_simulation_worker(scn, rid, plan)
          IN  /\ raised' = Append(raised, WorkerRaises(scn, plan))
              /\ IF parallel
                 THEN /\ pool_results' = Append(pool_results, res)
                      /\ UNCHANGED all_results
                 ELSE /\ all_results' = Append(all_results, res)
                      /\ UNCHANGED pool_results
    /\ task' = task + 1
    /\ UNCHANGED << scenarios, parallel, results_df, summary, analysis_calls, bstate >>
    /\ UNCHANGED << ctlVars, runVars, detVars, netVars, fnVars, v2Vars >>

\* The end of _run_parallel_simulations / _run_sequential_simulations:
\* _create_results_dataframe.
BatchCollect ==
    /\ bstate = "running"
    /\ task = NumTasks
    /\ all_results' = IF parallel THEN pool_results ELSE all_results
    /\ results_df' = [ created |-> TRUE,
                       rows |-> IF parallel THEN pool_results ELSE all_results ]
    /\ bstate' = "collected"
    /\ UNCHANGED << scenarios, parallel, task, pool_results, summary, raised,
                    analysis_calls >>
    /\ UNCHANGED << ctlVars, runVars, detVars, netVars, fnVars, v2Vars >>

\* generate_statistical_summary
GenerateSummary ==
    /\ bstate = "collected"
    /\ results_df.created
    /\ summary' = [ name \in { results_df.rows[i].scenario_name :
                                  i \in 1..Len(results_df.rows) } |->
                      ScenarioSummary(ScenarioData(results_df.rows, name)) ]
    /\ bstate' = "summarized"
    /\ UNCHANGED << scenarios, parallel, task, pool_results, all_results, results_df,
                    raised, analysis_calls >>
    /\ UNCHANGED << ctlVars, runVars, detVars, netVars, fnVars, v2Vars >>

\* run_monte_carlo_analysis called again on the same framework object: the
\* task list and the pool's result list are new locals, self.all_results and
\* self.results_df are what the call before left.
run_monte_carlo_analysis ==
    /\ bstate \in {"collected", "summarized"}
    /\ analysis_calls < MaxAnalysisCalls
    /\ analysis_calls' = analysis_calls + 1
    /\ parallel' \in BOOLEAN
    /\ task' = 0
    /\ pool_results' = << >>
    /\ raised' = << >>
    /\ bstate' = "running"
    /\ UNCHANGED << scenarios, all_results, results_df, summary >>
    /\ UNCHANGED << ctlVars, runVars, detVars, netVars, fnVars, v2Vars >>

\* ============================== seeding (_apply_stochastic_variations)
\* The generator behind np.random, as a congruential generator: seeding fixes
\* the state, every draw advances it and returns a value in 0..999.
RngSeed(seed) == seed % RngModulus
RngNext(state) == ((state * 31) + 17) % RngModulus
RngValue(state) == state % 1000

LabelCode(label) ==
    IF label = "Baseline" THEN 1 ELSE IF label = "Low_BDWPT" THEN 2 ELSE 3

\* hash(str): a function of the string and of the secret the interpreter
\* draws at start-up (string hashing is randomised per process).
StrHash(label, secret) == (secret * 37) + (LabelCode(label) * 101) - 500

\* run_id * 1000 + hash(scenario.scenario_name) % 1000
SeedOf(rid, label, secret) == (rid * 1000) + (StrHash(label, secret) % 1000)

\* np.clip(np.random.normal(1.0, 0.15), 0.7, 1.3) as a function of the draw
LoadMultiplier(value) == Min2(1300, Max2(700, 550 + (value * 9) \div 10))

\* np.random.uniform(0.2, 0.9) as a function of the draw
DrawnSoc(value) == 200 + (value * 7) \div 10

HashSecrets == {13, 14}
EntryStates == {5, 77}
Relations == {"same_process", "worker_processes", "separate_invocations"}
Orchestrators == {"monte_carlo", "monte_carlo_v2"}

NoExecution ==
    [ secret |-> 0, rng |-> 0, at |-> "idle", load_multiplier |-> 1000,
      vehicle |-> EVStateDefault, command |-> 0 ]

DetIdle ==
    /\ pair = [ orchestrator |-> "", relation |-> "", scenario |-> NoScenario,
                run_id |-> 0 ]
    /\ ex = [ e \in {1, 2} |-> NoExecution ]

\* monte_carlo.py line 300: np.random.seed(...)
DetSeed ==
    \E e \in {1, 2} :
       /\ ex[e].at = "entry"
       /\ pair.orchestrator = "monte_carlo"
       /\ ex' = [ ex EXCEPT
                    ![e].rng = RngSeed(SeedOf(pair.run_id, pair.scenario.scenario_name,
                                              ex[e].secret)),
                    ![e].at = "seeded" ]
       /\ UNCHANGED pair
       /\ UNCHANGED << ctlVars, runVars, batchVars, netVars, fnVars, v2Vars >>

\* monte_carlo.py lines 303-309: the load multiplier of a PQ bus
DetPerturb ==
    \E e \in {1, 2} :
       /\ ex[e].at = "seeded"
       /\ ex' = [ ex EXCEPT
                    ![e].rng = RngNext(ex[e].rng),
                    ![e].load_multiplier = LoadMultiplier(RngValue(RngNext(ex[e].rng))),
                    ![e].at = "perturbed" ]
       /\ UNCHANGED pair
       /\ UNCHANGED << ctlVars, runVars, batchVars, netVars, fnVars, v2Vars >>

\* The first registration of the run: the enrolment draw and initialize_ev.
\* monte_carlo_v2.py gets here without having seeded the generator.
DetRegister ==
    \E e \in {1, 2} :
       /\ \/ ex[e].at = "perturbed"
          \/ ex[e].at = "entry" /\ pair.orchestrator = "monte_carlo_v2"
       /\ LET s1 == RngNext(ex[e].rng)
              s2 == RngNext(s1)
          IN  ex' = [ ex EXCEPT
                        ![e].rng = s2,
                        ![e].vehicle =
                            NewEV(RngValue(s1) < pair.scenario.bdwpt_penetration, 0,
                                  DrawnSoc(RngValue(s2)), 50, 50000, 90, 1, 750, 600),
                        ![e].at = "registered" ]
       /\ UNCHANGED pair
       /\ UNCHANGED << ctlVars, runVars, batchVars, netVars, fnVars, v2Vars >>

\* The first calculate_power_command of the run.
DetDecide ==
    \E e \in {1, 2} :
       /\ ex[e].at = "registered"
       /\ LET s1 == RngNext(ex[e].rng)
              s2 == RngNext(s1)
              r == Cascade(ex[e].vehicle, InitialVoltage, 0, 120000,
                           RngValue(s1), RngValue(s2))
          IN  ex' = [ ex EXCEPT
                        ![e].rng = IF r.use4 /\ r.use6 THEN s2
                                   ELSE IF r.use4 \/ r.use6 THEN s1
                                   ELSE ex[e].rng,
                        ![e].vehicle = r.ev,
                        ![e].command = r.ret,
                        ![e].at = "done" ]
       /\ UNCHANGED pair
       /\ UNCHANGED << ctlVars, runVars, batchVars, netVars, fnVars, v2Vars >>

\* ========================================= network tables and their copies
\* The processes that run a worker at the same time (pool.map), and the
\* tables of a network dictionary.
Workers == {1, 2}
Tables == {"bus", "gen", "branch"}

\* Where an array lives: the framework's arrays, and for each worker the
\* arrays made for its rebuilt, varied, timed and PV networks.
Roles == {"worker", "varied", "timed", "pv"}
Addrs == ({0} \X {"base"} \X Tables) \cup (Workers \X Roles \X Tables)

\* A network dictionary: for each table, the address of its array.
NetworkAt(w, role) == [ t \in Tables |-> << w, role, t >> ]
NoNetwork == [ t \in Tables |-> << >> ]

\* The template: bus rows <<bus_type, Pd>> (Pd in W) of the slack bus, the
\* low-voltage bus and four houses; generator and branch rows by bus number.
BaseBus == << <<3, 0>>, <<2, 0>>, <<1, 5000>>, <<1, 5000>>, <<1, 5000>>, <<1, 5000>> >>
BaseGen == << <<1>>, <<2>> >>
BaseBranch == << <<1, 2>>, <<2, 3>>, <<2, 4>>, <<2, 5>>, <<2, 6>> >>

BaseTable(t) ==
    IF t = "bus" THEN BaseBus ELSE IF t = "gen" THEN BaseGen ELSE BaseBranch

\* Draws and inputs of the network operations (multipliers in 1/1000).
LoadMultipliers == {1300}
WeatherConditions == {"clear", "cold"}
FinalMultipliers == {340}
PvPenetrations == {300}
PvOutputs == {2000}
EvPowers == {0 - 25000, 30800}
EvBusIndexes == {1, 2}

ArrayAlias(src, fresh) == src

SharedNetwork(net, w, role) == net

\* ndarray.copy(), np.array(list) and copy.deepcopy: the address of the new
\* array.
ArrayCopy(src, fresh) == fresh

\* The dictionary built from copies of the tables of net, and the memory
\* after the copies were made.
CopiedNetwork(net, w, role) ==
    [ t \in Tables |-> ArrayCopy(net[t], << w, role, t >>) ]

HeapAfterCopy(h, net, w, role) ==
    LET new == CopiedNetwork(net, w, role)
    IN  [ a \in Addrs |->
            IF \E t \in Tables : new[t] = a
            THEN h[net[CHOOSE t \in Tables : new[t] = a]]
            ELSE h[a] ]

\* bus[i][2] *= m for every PQ row
ScaleLoads(bus, m) ==
    [ i \in DOMAIN bus |->
        IF bus[i][1] = 1 THEN << bus[i][1], (bus[i][2] * m) \div 1000 >> ELSE bus[i] ]

weather_factor(weather_condition) ==
    IF weather_condition = "cold" THEN 1150
    ELSE IF weather_condition = "rain" THEN 1050
    ELSE 1000

\* _apply_stochastic_variations: the memory after it, its result at
\* NetworkAt(w, "varied").
apply_stochastic_variations(h, net, w, load_multiplier, weather_condition) ==
    LET varied == CopiedNetwork(net, w, "varied")
        h1 == HeapAfterCopy(h, net, w, "varied")
    IN  [ h1 EXCEPT ![varied.bus] =
            ScaleLoads(ScaleLoads(h1[varied.bus], load_multiplier),
                       weather_factor(weather_condition)) ]

\* update_loads_for_time: rows from the third on, PQ rows only, get the
\* load of the source network times the multiplier.
update_loads_for_time(h, net, w, final_multiplier) ==
    LET updated == CopiedNetwork(net, w, "timed")
        h1 == HeapAfterCopy(h, net, w, "timed")
    IN  [ h1 EXCEPT ![updated.bus] =
            [ i \in DOMAIN h1[updated.bus] |->
                IF i > 2 /\ h1[updated.bus][i][1] = 1
                THEN << 1, (h1[net.bus][i][2] * final_multiplier) \div 1000 >>
                ELSE h1[updated.bus][i] ] ]

\* add_pv_generation: the first int(num_houses * pv_penetration) houses
\* have the PV output taken off their load.
add_pv_generation(h, net, w, pv_penetration, pv_output) ==
    LET updated == CopiedNetwork(net, w, "pv")
        h1 == HeapAfterCopy(h, net, w, "pv")
        num_pv_houses == ((Len(h1[updated.bus]) - 2) * pv_penetration) \div 1000
    IN  [ h1 EXCEPT ![updated.bus] =
            [ i \in DOMAIN h1[updated.bus] |->
                IF i > 2 /\ i <= 2 + num_pv_houses /\ h1[updated.bus][i][1] = 1
                THEN << 1, h1[updated.bus][i][2] - pv_output >>
                ELSE h1[updated.bus][i] ] ]

\* current_network['bus'][bus_index][2] += power_mw
InjectEvPower(h, net, bus_index, power) ==
    [ h EXCEPT ![net.bus] =
        [ @ EXCEPT ![bus_index + 1] = << @[1], @[2] + power >> ] ]

NetIdle ==
    /\ heap = [ a \in Addrs |-> << >> ]
    /\ base_network = NoNetwork
    /\ worker_network = [ w \in Workers |-> NoNetwork ]
    /\ varied_network = [ w \in Workers |-> NoNetwork ]
    /\ current_network = [ w \in Workers |-> NoNetwork ]
    /\ npc = [ w \in Workers |-> "idle" ]
    /\ ev_injected = [ w \in Workers |-> FALSE ]
    /\ framework = "mc"

\* monte_carlo.py: the task data is self.base_network[...].tolist() and the
\* worker rebuilds arrays from it, then applies the variations of the run.
NetRebuild(w) ==
    /\ framework = "mc"
    /\ npc[w] = "idle"
    /\ heap' = HeapAfterCopy(heap, base_network, w, "worker")
    /\ worker_network' =
          [ worker_network EXCEPT ![w] = CopiedNetwork(base_network, w, "worker") ]
    /\ npc' = [ npc EXCEPT ![w] = "rebuilt" ]
    /\ UNCHANGED << base_network, varied_network, current_network, framework,
                    ev_injected >>
    /\ UNCHANGED << ctlVars, runVars, batchVars, detVars, fnVars, v2Vars >>

NetVary(w) ==
    /\ npc[w] = "rebuilt"
    /\ \E m \in LoadMultipliers, weather \in WeatherConditions :
          heap' = apply_stochastic_variations(heap, worker_network[w], w, m, weather)
    /\ varied_network' =
          [ varied_network EXCEPT ![w] = CopiedNetwork(worker_network[w], w, "varied") ]
    /\ npc' = [ npc EXCEPT ![w] = "run" ]
    /\ UNCHANGED << base_network, worker_network, current_network, framework,
                    ev_injected >>
    /\ UNCHANGED << ctlVars, runVars, batchVars, detVars, fnVars, v2Vars >>

\* monte_carlo_v2.py: current_network = copy.deepcopy(self.base_network);
\* its runs follow one another in one process.
NetDeepCopy(w) ==
    /\ framework = "v2"
    /\ \A other \in Workers : npc[other] = "idle"
    /\ heap' = HeapAfterCopy(heap, base_network, w, "varied")
    /\ varied_network' =
          [ varied_network EXCEPT ![w] = CopiedNetwork(base_network, w, "varied") ]
    /\ npc' = [ npc EXCEPT ![w] = "run" ]
    /\ UNCHANGED << base_network, worker_network, current_network, framework,
                    ev_injected >>
    /\ UNCHANGED << ctlVars, runVars, batchVars, detVars, fnVars, v2Vars >>

\* network_builder.update_loads_for_time(varied_network, hour, day_type)
NetUpdateLoads(w) ==
    /\ npc[w] = "run"
    /\ \E m \in FinalMultipliers :
          heap' = update_loads_for_time(heap, varied_network[w], w, m)
    /\ current_network' =
          [ current_network EXCEPT ![w] = CopiedNetwork(varied_network[w], w, "timed") ]
    /\ npc' = [ npc EXCEPT ![w] = "timed" ]
    /\ UNCHANGED << base_network, worker_network, varied_network, framework,
                    ev_injected >>
    /\ UNCHANGED << ctlVars, runVars, batchVars, detVars, fnVars, v2Vars >>

\* network_builder.add_pv_generation(current_network, hour, pv_penetration)
NetAddPv(w) ==
    /\ npc[w] = "timed"
    /\ \E pv \in PvPenetrations, out \in PvOutputs :
          heap' = add_pv_generation(heap, current_network[w], w, pv, out)
    /\ current_network' =
          [ current_network EXCEPT ![w] = CopiedNetwork(current_network[w], w, "pv") ]
    /\ npc' = [ npc EXCEPT ![w] = "pv" ]
    /\ UNCHANGED << base_network, worker_network, varied_network, framework,
                    ev_injected >>
    /\ UNCHANGED << ctlVars, runVars, batchVars, detVars, fnVars, v2Vars >>

\* The power of a vehicle is added to a bus of the step's network.
NetInject(w) ==
    /\ npc[w] \in {"timed", "pv"}
    /\ \E bus_index \in EvBusIndexes, power \in EvPowers :
          heap' = InjectEvPower(heap, current_network[w], bus_index, power)
    /\ npc' = [ npc EXCEPT ![w] = "injected" ]
    /\ ev_injected' = [ ev_injected EXCEPT ![w] = TRUE ]
    /\ UNCHANGED << base_network, worker_network, varied_network, current_network,
                    framework >>
    /\ UNCHANGED << ctlVars, runVars, batchVars, detVars, fnVars, v2Vars >>

\* runpf on the step's network; the loop goes on with the next step and the
\* arrays of this step are released, or the run returns and all its arrays
\* are released.
NetSolve(w) ==
    /\ npc[w] \in {"timed", "pv", "injected"}
    /\ \/ /\ npc' = [ npc EXCEPT ![w] = "run" ]
          /\ heap' = [ a \in Addrs |->
                        IF a[1] = w /\ a[2] \in {"timed", "pv"} THEN << >> ELSE heap[a] ]
          /\ current_network' = [ current_network EXCEPT ![w] = NoNetwork ]
          /\ UNCHANGED << worker_network, varied_network, ev_injected >>
       \/ /\ npc' = [ npc EXCEPT ![w] = "idle" ]
          /\ heap' = [ a \in Addrs |-> IF a[1] = w THEN << >> ELSE heap[a] ]
          /\ worker_network' = [ worker_network EXCEPT ![w] = NoNetwork ]
          /\ varied_network' = [ varied_network EXCEPT ![w] = NoNetwork ]
          /\ current_network' = [ current_network EXCEPT ![w] = NoNetwork ]
          /\ ev_injected' = [ ev_injected EXCEPT ![w] = FALSE ]
    /\ UNCHANGED << base_network, framework >>
    /\ UNCHANGED << ctlVars, runVars, batchVars, detVars, fnVars, v2Vars >>

\* ================================================= function applications
NoApplication == [ op |-> "none", args |-> << >>, out |-> 0 ]

FnIdle == fcall = NoApplication

\* The arguments _simulate_traffic_pattern is applied to: every hour of the
\* day, the density classes, and values of np.random.poisson(1).
TrafficHours == 0..23
TrafficDensities == {"low", "medium", "high"}
TrafficNoise == 0..3

\* num_evs = _simulate_traffic_pattern(current_hour, scenario.traffic_density)
ApplyTraffic ==
    /\ fcall.op = "none"
    /\ \E hour \in TrafficHours, density \in TrafficDensities, noise \in TrafficNoise :
          fcall' = [ op |-> "traffic", args |-> << hour, density, noise >>,
                     out |-> simulate_traffic_pattern(hour, density, noise) ]
    /\ UNCHANGED << ctlVars, runVars, batchVars, detVars, netVars, v2Vars >>

\* advanced_bdwpt.py: AdvancedBDWPTModeling.calculate_dynamic_efficiency, with
\* speeds in km/h, lengths in cm and factors in 1/1000.
speed_factor(speed_kmh) ==
    IF speed_kmh < 20 THEN 950 ELSE IF speed_kmh > 60 THEN 920 ELSE 1000

AlignmentFactorUnfloored(alignment_error_cm) ==
    1000 - (alignment_error_cm * 1000) \div 30

\* max(0.7, 1.0 - (alignment_error_cm / 30))
alignment_factor(alignment_error_cm) ==
    Max2(700, 1000 - (alignment_error_cm * 1000) \div 30)

\* max(0.8, 1.0 - abs(air_gap_cm - optimal_gap) / 20)
gap_factor(air_gap_cm) == Max2(800, 1000 - (Abs(air_gap_cm - 15) * 1000) \div 20)

\* base_efficiency * speed_factor * alignment_factor * gap_factor
calculate_dynamic_efficiency(speed_kmh, alignment_error_cm, air_gap_cm) ==
    (((((880 * speed_factor(speed_kmh)) \div 1000)
          * alignment_factor(alignment_error_cm)) \div 1000)
          * gap_factor(air_gap_cm)) \div 1000

\* monte_carlo_v2.py: the command (W) after the efficiency was applied.
adjusted_power(power_command, dynamic_efficiency) ==
    IF power_command > 0 THEN (power_command * dynamic_efficiency) \div 1000
    ELSE IF power_command < 0
    THEN 0 - (((0 - power_command) * 1000) \div Max2(dynamic_efficiency, 100))
    ELSE 0

\* Speeds of vehicles, alignment errors and air gaps (the orchestrator draws
\* the error from [0, 15] and the gap from [12, 20]), and commands of the
\* controller.
Speeds == {0, 19, 20, 60, 61, 100}
AlignmentErrors == {0, 9, 15, 30, 45}
AirGaps == {0, 12, 15, 20, 40}
Commands == {0 - 25000, 0 - 20000, 0, 3000, 30000}

ApplyEfficiency ==
    /\ fcall.op = "none"
    /\ \E speed \in Speeds, err \in AlignmentErrors, gap \in AirGaps,
          power_command \in Commands :
          fcall' = [ op |-> "efficiency",
                     args |-> << speed, err, gap, power_command >>,
                     out |-> << calculate_dynamic_efficiency(speed, err, gap),
                                adjusted_power(power_command,
                                    calculate_dynamic_efficiency(speed, err, gap)) >> ]
    /\ UNCHANGED << ctlVars, runVars, batchVars, detVars, netVars, v2Vars >>

\* ============================ monte_carlo_v2.py: EnhancedMonteCarloFramework
\* Two of the framework's scenarios.
V2Scenarios ==
    << FrameworkScenarios[3],
       SimulationScenario(400, "high", "weekday", "rain", 300, "High_Traffic_Rain") >>

V2NumTasks == Len(V2Scenarios) * runs_per_scenario

\* The scenario and run id of the nested loops of run_analysis.
V2Scenario(t) == V2Scenarios[(t \div runs_per_scenario) + 1]
V2RunId(t) == t % runs_per_scenario

\* Grid-update steps of a run: every 900 s of the 16 h SUMO loop, or every
\* hour of the day of the simplified loop.
SumoGridSteps == 64
DemoGridSteps == 24
v2_total_steps(sumo) == Min2(IF sumo THEN SumoGridSteps ELSE DemoGridSteps, MaxSteps)

\* int(current_time) with current_time = 7 + step / 3600, or the hour of the
\* simplified loop.
v2_hour(sumo, k) == IF sumo THEN 7 + (k \div 4) ELSE k

\* The time step given to update_ev_soc, in 1/120 h: 30/3600 h or 1.0 h.
v2_time_step(sumo) == IF sumo THEN 1 ELSE 120

\* The voltage given to calculate_power_command: column 7 of the bus row in
\* current_network (the copy of the template, whose voltage magnitudes are
\* 1.0), or the literal 1.0 of the simplified loop.
TemplateVoltage == 1000
DemoVoltage == 1000

\* Sum of the bus loads the controller is given as grid demand (W), the
\* minimum voltage of a solved power flow, the dynamic efficiency of the
\* step, and the draws <<enrolment, rule 4, rule 6>> of the vehicle.
V2Loads == {120000}
V2SolvedVoltages == {970}
V2Efficiencies == {calculate_dynamic_efficiency(40, 0, 15)}
V2Draws == { <<100, 399, 399>>, <<600, 399, 399>> }

V2VehicleId(sumo) == IF sumo THEN "ev_0" ELSE "demo_ev_0"

NoLocalVoltage == 0 - 1

\* One vehicle of a grid-update step, on controller c: the controller after
\* calculate_power_command and update_ev_soc, the voltage the first was
\* given and the command it returned.  ev is the vehicle's state before.
V2Decide(c, veh_id, ev, hour, voltage, demand, d, efficiency, sumo) ==
    LET r == Cascade(ev, voltage, hour, demand, d[2], d[3])
        power == IF sumo THEN adjusted_power(r.ret, efficiency) ELSE r.ret
        ev1 == IF power = 0 THEN r.ev
               ELSE [ r.ev EXCEPT !.soc = SocAfter(r.ev, power, v2_time_step(sumo)) ]
    IN  [ ev_states |-> [ x \in DOMAIN c.ev_states \cup {veh_id} |->
                            IF x = veh_id THEN ev1 ELSE c.ev_states[x] ],
          total_energy_traded_kwh |->
              c.total_energy_traded_kwh
                  + (IF power = 0 THEN 0 ELSE EnergyOf(r.ev, power, v2_time_step(sumo))),
          peak_shaving_achieved_kw |-> c.peak_shaving_achieved_kw + r.peak,
          v2g_events |-> c.v2g_events + r.v2g,
          g2v_events |-> c.g2v_events + r.g2v,
          local_voltage |-> voltage,
          command |-> r.ret,
          total_ev_power |-> power ]

NoDecision(c) ==
    c @@ [ local_voltage |-> NoLocalVoltage, command |-> 0, total_ev_power |-> 0 ]

\* The vehicles of one grid-update step.  SUMO loop: the vehicle is handled
\* when it is in a BDWPT zone and its draw is below the penetration, and is
\* registered first when it is new.  Simplified loop: every registered
\* vehicle is handled.
V2Vehicles(c, scn, k, demand, d, efficiency, sumo) ==
    LET id == V2VehicleId(sumo)
        known == id \in DOMAIN c.ev_states
    IN  IF sumo
        THEN IF d[1] < scn.bdwpt_penetration
             THEN V2Decide(c, id,
                           IF known THEN c.ev_states[id]
                           ELSE RunVehicle(TRUE, v2_hour(sumo, k)),
                           v2_hour(sumo, k), TemplateVoltage, demand, d, efficiency, sumo)
             ELSE NoDecision(c)
        ELSE IF known /\ c.ev_states[id].bdwpt_enabled
             THEN V2Decide(c, id, c.ev_states[id], v2_hour(sumo, k), DemoVoltage,
                           demand, d, efficiency, sumo)
             ELSE NoDecision(c)

\* _calculate_results
v2_calculate_results(scn, rid, vh, ph, c) ==
    LET m == get_performance_metrics(c)
    IN  [ scenario_name |-> scn.scenario_name,
          run_id |-> rid,
          min_voltage_pu |-> IF Len(vh) > 0 THEN SeqMin(vh) ELSE 1000,
          max_voltage_pu |-> IF Len(vh) > 0 THEN SeqMax(vh) ELSE 1000,
          voltage_violations |-> VoltageViolations(vh),
          peak_demand_mw |-> IF Len(ph) > 0 THEN SeqMax(ph) ELSE 0,
          peak_shaving_achieved_mw |-> 0,
          grid_cost_savings |-> 0,
          total_energy_traded_mwh |-> m.total_energy_traded_kwh,
          avg_ev_soc_end |-> m.avg_final_soc,
          v2g_utilization |-> m.v2g_participation_rate,
          ev_owner_revenue |-> EvRevenue(m.total_energy_traded_kwh) ]

V2Idle ==
    /\ v2pc = "idle"
    /\ use_sumo = FALSE
    /\ v2_task = 0
    /\ v2_step = 0
    /\ v2_voltage_history = << >>
    /\ v2_power_history = << >>
    /\ v2_log = << >>
    /\ v2_all_results = << >>
    /\ v2_results_df = NoDataFrame

\* run_single_simulation_with_sumo up to its loop: the components are
\* built and, in the simplified mode, the vehicles whose draw is below the
\* penetration are registered at hour 0.
V2RunSetup ==
    /\ v2pc = "start"
    /\ v2_task < V2NumTasks
    /\ \E d \in V2Draws :
          ev_states' =
              IF ~use_sumo /\ d[1] < V2Scenario(v2_task).bdwpt_penetration
              THEN [ id \in {V2VehicleId(FALSE)} |-> RunVehicle(TRUE, 0) ]
              ELSE NewController.ev_states
    /\ total_energy_traded_kwh' = NewController.total_energy_traded_kwh
    /\ peak_shaving_achieved_kw' = NewController.peak_shaving_achieved_kw
    /\ v2g_events' = NewController.v2g_events
    /\ g2v_events' = NewController.g2v_events
    /\ v2_step' = 0
    /\ v2_voltage_history' = << >>
    /\ v2_power_history' = << >>
    /\ v2_log' = << >>
    /\ v2pc' = "loop"
    /\ UNCHANGED << use_sumo, v2_task, v2_all_results, v2_results_df, call, ncalls >>
    /\ UNCHANGED << runVars, batchVars, detVars, netVars, fnVars >>

\* One grid-update step: the vehicles, the loads of the hour, the power flow,
\* and the records that are appended when it converged.
V2Step ==
    /\ v2pc = "loop"
    /\ v2_step < v2_total_steps(use_sumo)
    /\ \E demand \in V2Loads, d \in V2Draws, efficiency \in V2Efficiencies,
          success \in BOOLEAN, min_voltage \in V2SolvedVoltages :
          \E c \in { V2Vehicles(Controller, V2Scenario(v2_task), v2_step, demand, d,
                                efficiency, use_sumo) } :
             /\ ev_states' = c.ev_states
             /\ total_energy_traded_kwh' = c.total_energy_traded_kwh
             /\ peak_shaving_achieved_kw' = c.peak_shaving_achieved_kw
             /\ v2g_events' = c.v2g_events
             /\ g2v_events' = c.g2v_events
             /\ v2_log' = Append(v2_log,
                                 [ local_voltage |-> c.local_voltage,
                                   command |-> c.command,
                                   success |-> success,
                                   min_voltage |-> min_voltage ])
             /\ v2_voltage_history' =
                   IF success THEN Append(v2_voltage_history, min_voltage)
                   ELSE v2_voltage_history
             /\ v2_power_history' =
                   IF success THEN Append(v2_power_history, demand + c.total_ev_power)
                   ELSE v2_power_history
    /\ v2_step' = v2_step + 1
    /\ UNCHANGED << v2pc, use_sumo, v2_task, v2_all_results, v2_results_df, call,
                    ncalls >>
    /\ UNCHANGED << runVars, batchVars, detVars, netVars, fnVars >>

\* The run returns _calculate_results(...) and run_analysis appends it.
V2RunReturn ==
    /\ v2pc = "loop"
    /\ v2_step = v2_total_steps(use_sumo)
    /\ v2_all_results' =
          Append(v2_all_results,
                 v2_calculate_results(V2Scenario(v2_task), V2RunId(v2_task),
                                      v2_voltage_history, v2_power_history, Controller))
    /\ v2_task' = v2_task + 1
    /\ v2pc' = "start"
    /\ UNCHANGED << use_sumo, v2_step, v2_voltage_history, v2_power_history, v2_log,
                    v2_results_df >>
    /\ UNCHANGED << ctlVars, runVars, batchVars, detVars, netVars, fnVars >>

\* After the loops of run_analysis: the results table is built.
V2Collect ==
    /\ v2pc = "start"
    /\ v2_task = V2NumTasks
    /\ v2_results_df' = [ created |-> TRUE, rows |-> v2_all_results ]
    /\ v2pc' = "finished"
    /\ UNCHANGED << use_sumo, v2_task, v2_step, v2_voltage_history, v2_power_history,
                    v2_log, v2_all_results >>
    /\ UNCHANGED << ctlVars, runVars, batchVars, detVars, netVars, fnVars >>

\* Something raises inside run_single_simulation_with_sumo (the components
\* are built outside any try, the SUMO loop has a try/finally without an
\* except clause, the simplified loop has no try): run_analysis has no
\* handler either, so the exception leaves it.
V2Raise ==
    /\ v2pc \in {"start", "loop"}
    /\ v2_task < V2NumTasks
    /\ v2pc' = "aborted"
    /\ UNCHANGED << use_sumo, v2_task, v2_step, v2_voltage_history, v2_power_history,
                    v2_log, v2_all_results, v2_results_df >>
    /\ UNCHANGED << ctlVars, runVars, batchVars, detVars, netVars, fnVars >>

\* ========================================================= specifications
vars == << ctlVars, runVars, batchVars, detVars, netVars, fnVars, v2Vars >>

\* A controller from construction on: vehicles enter through initialize_ev.
Init == CtlInit /\ RunIdle /\ BatchIdle /\ DetIdle /\ NetIdle /\ FnIdle /\ V2Idle

Next == Register \/ Decide \/ ApplySoc

Spec == Init /\ [][Next]_vars

\* The scenarios a run is followed for: no enrolment at all, and enrolment
\* of the vehicles whose draw is below the penetration.
RunScenarios == { FrameworkScenarios[1], FrameworkScenarios[3] }

\* The worker called with one of the framework's scenarios.
InitRun ==
    /\ CtlInit
    /\ pc = "start"
    /\ scenario \in RunScenarios
    /\ run_id = 0
    /\ step = 0
    /\ voltage_history = << >>
    /\ power_flow_history = << >>
    /\ solved_history = << >>
    /\ baseline_peak_mw = 0
    /\ actual_peak_mw = 0
    /\ baseline_demand = 0
    /\ result = NoResult
    /\ BatchIdle
    /\ DetIdle
    /\ NetIdle
    /\ FnIdle
    /\ V2Idle

NextRun == RunSetup \/ RunStep \/ RunFinalize \/ RunFail \/ RunNext

SpecRun == InitRun /\ [][NextRun]_vars

\* A framework whose scenarios list is set, at the call of
\* run_monte_carlo_analysis.
InitBatch ==
    /\ CtlInit
    /\ RunIdle
    /\ DetIdle
    /\ NetIdle
    /\ FnIdle
    /\ V2Idle
    /\ scenarios \in ScenarioLists
    /\ parallel \in BOOLEAN
    /\ task = 0
    /\ pool_results = << >>
    /\ all_results = << >>
    /\ results_df = NoDataFrame
    /\ summary = << >>
    /\ raised = << >>
    /\ analysis_calls = 1
    /\ bstate = "running"

NextBatch == BatchRunTask \/ BatchCollect \/ GenerateSummary

SpecBatch == InitBatch /\ [][NextBatch]_vars

\* The same framework, with run_monte_carlo_analysis called more than once.
NextCalls == NextBatch \/ run_monte_carlo_analysis

SpecCalls == InitBatch /\ [][NextCalls]_vars

\* Two executions of the same (scenario label, run id): each in a process with
\* its hash secret and with the generator in the state earlier work left.
InitPair ==
    /\ CtlInit
    /\ RunIdle
    /\ BatchIdle
    /\ NetIdle
    /\ FnIdle
    /\ V2Idle
    /\ \E o \in Orchestrators, rel \in Relations,
          scn \in Range(FrameworkScenarios) :
          pair = [ orchestrator |-> o, relation |-> rel, scenario |-> scn,
                   run_id |-> 0 ]
    /\ \E k1 \in HashSecrets, k2 \in HashSecrets, s1 \in EntryStates,
          s2 \in EntryStates :
          /\ pair.relation = "same_process" => k1 = k2
          /\ ex = [ e \in {1, 2} |->
                      [ NoExecution EXCEPT
                          !.secret = IF e = 1 THEN k1 ELSE k2,
                          !.rng = IF e = 1 THEN s1 ELSE s2,
                          !.at = "entry" ] ]

NextPair == DetSeed \/ DetPerturb \/ DetRegister \/ DetDecide

SpecPair == InitPair /\ [][NextPair]_vars

\* Functions of the program applied to arguments of their domain.
InitFn == CtlInit /\ RunIdle /\ BatchIdle /\ DetIdle /\ NetIdle /\ FnIdle /\ V2Idle

NextFn == ApplyTraffic \/ ApplyEfficiency

SpecFn == InitFn /\ [][NextFn]_vars

\* An EnhancedMonteCarloFramework at the call of run_analysis.
InitV2 ==
    /\ CtlInit
    /\ RunIdle
    /\ BatchIdle
    /\ DetIdle
    /\ NetIdle
    /\ FnIdle
    /\ v2pc = "start"
    /\ use_sumo \in BOOLEAN
    /\ v2_task = 0
    /\ v2_step = 0
    /\ v2_voltage_history = << >>
    /\ v2_power_history = << >>
    /\ v2_log = << >>
    /\ v2_all_results = << >>
    /\ v2_results_df = NoDataFrame

NextV2 == V2RunSetup \/ V2Step \/ V2RunReturn \/ V2Collect \/ V2Raise

SpecV2 == InitV2 /\ [][NextV2]_vars

\* A framework holding its template, before its runs.
InitNet ==
    /\ CtlInit
    /\ RunIdle
    /\ BatchIdle
    /\ DetIdle
    /\ FnIdle
    /\ V2Idle
    /\ heap = [ a \in Addrs |-> IF a[2] = "base" THEN BaseTable(a[3]) ELSE << >> ]
    /\ base_network = NetworkAt(0, "base")
    /\ worker_network = [ w \in Workers |-> NoNetwork ]
    /\ varied_network = [ w \in Workers |-> NoNetwork ]
    /\ current_network = [ w \in Workers |-> NoNetwork ]
    /\ npc = [ w \in Workers |-> "idle" ]
    /\ ev_injected = [ w \in Workers |-> FALSE ]
    /\ framework \in {"mc", "v2"}

NextNet ==
    \E w \in Workers :
        \/ NetRebuild(w)
        \/ NetVary(w)
        \/ NetDeepCopy(w)
        \/ NetUpdateLoads(w)
        \/ NetAddPv(w)
        \/ NetInject(w)
        \/ NetSolve(w)

SpecNet == InitNet /\ [][NextNet]_vars

\* One controller operation on a registry holding one EVState built directly
\* from the dataclass: the cascade and the integrator as functions of the
\* vehicle state.
AnyEV(flags, soc, cap, maxp, window, target, minsoc, will) ==
    [ EVStateDefault EXCEPT
        !.bdwpt_enabled = flags[1], !.is_connected = flags[2],
        !.soc = soc, !.battery_capacity_kwh = cap, !.max_power_kw = maxp,
        !.arrival_time = window[1], !.departure_time = window[2],
        !.target_soc = target, !.min_soc = minsoc,
        !.participation_willingness = will ]

InitAnyEV ==
    /\ \E flags \in AnyFlags, soc \in AnySocs, cap \in AnyCapacities,
          maxp \in AnyMaxPowers, window \in AnyWindows, target \in AnyTargets,
          minsoc \in AnyMinSocs, will \in AnyWillingness :
          ev_states = [ id \in {"ev_a"} |->
                          AnyEV(flags, soc, cap, maxp, window, target, minsoc, will) ]
    /\ total_energy_traded_kwh = 0
    /\ peak_shaving_achieved_kw = 0
    /\ v2g_events = 0
    /\ g2v_events = 0
    /\ call = NoCall
    /\ ncalls = 0
    /\ RunIdle
    /\ BatchIdle
    /\ DetIdle
    /\ NetIdle
    /\ FnIdle
    /\ V2Idle

DecideOnce == call.op = "init" /\ Decide

ApplySocOnce == call.op = "init" /\ ApplySoc

NextAnyEV == DecideOnce \/ ApplySocOnce

SpecAnyEV == InitAnyEV /\ [][NextAnyEV]_vars

\* ====================================================== claims C1 - C7
\* The last operation was calculate_power_command on a registered vehicle.
Decided == call.op = "decide" /\ call.known

\* ... on a vehicle that passes rule 1: enrolled, connected, inside its window.
DecidedLive ==
    /\ Decided
    /\ call.before.bdwpt_enabled
    /\ call.before.is_connected
    /\ call.before.arrival_time <= call.hour
    /\ call.hour < call.before.departure_time

\* ... on a vehicle that also passes rules 2 and 3.
DecidedPastSafety ==
    /\ DecidedLive
    /\ call.before.soc > call.before.min_soc
    /\ call.before.soc < 950

SupportCondition == call.voltage < 950 \/ call.demand > 100000

\* Rule 4 issued the discharge.
SupportFired ==
    /\ SupportCondition
    /\ call.before.soc > 600
    /\ call.draw4 < call.before.participation_willingness

\* C1: every registered vehicle's soc stays within [0, 1] over any sequence
\* of initialize_ev, calculate_power_command and update_ev_soc calls.
C1_SocInUnitInterval ==
    \A id \in DOMAIN ev_states : ev_states[id].soc >= 0 /\ ev_states[id].soc <= 1000

\* update_ev_soc clamped a discharge at 0 and a charge at 1 is possible too.
C1_Witness ==
    /\ call.op = "applySoc" /\ call.known
    /\ call.power < 0 /\ call.dt > 0
    /\ call.before.soc > 0
    /\ ev_states[call.id].soc = 0

\* C2: the command returned by calculate_power_command is at most max_power_kw
\* in absolute value, for every vehicle state with max_power_kw > 0.
C2_CommandWithinMaxPower ==
    (Decided /\ call.before.max_power_kw > 0)
        => (call.ret <= call.before.max_power_kw
            /\ -call.ret <= call.before.max_power_kw)

\* An emergency charge for a vehicle whose max power is below the 30 kW cap.
C2_Witness ==
    /\ Decided /\ call.rule = 2
    /\ call.before.max_power_kw < 30000
    /\ call.ret > 0 /\ call.ret <= call.before.max_power_kw

\* C3: calculate_power_command returns 0 for a vehicle that is unknown, not
\* enrolled, not connected or outside [arrival, departure); outside the window
\* an enrolled, connected vehicle is also marked disconnected.
C3_GateReturnsZero ==
    /\ (call.op = "decide"
        /\ (\/ ~call.known
            \/ ~call.before.bdwpt_enabled
            \/ ~call.before.is_connected
            \/ call.hour < call.before.arrival_time
            \/ call.hour >= call.before.departure_time))
       => call.ret = 0
    /\ (Decided /\ call.before.bdwpt_enabled /\ call.before.is_connected
        /\ (call.hour < call.before.arrival_time
            \/ call.hour >= call.before.departure_time))
       => ~ev_states[call.id].is_connected

\* An enrolled, connected vehicle asked after its departure hour, with low
\* voltage: 0 is returned and the vehicle is now disconnected.
C3_Witness ==
    /\ Decided /\ call.before.bdwpt_enabled /\ call.before.is_connected
    /\ call.hour >= call.before.departure_time
    /\ call.voltage < 950
    /\ call.ret = 0
    /\ ~ev_states[call.id].is_connected

\* C4: with soc <= min_soc a live vehicle gets the positive emergency charge
\* min(0.8 max_power, 30 kW), whatever the voltage, demand, price and draws.
C4_EmergencyChargeFirst ==
    (DecidedLive /\ call.before.soc <= call.before.min_soc)
        => (/\ call.ret = Min2((call.before.max_power_kw * 8) \div 10, 30000)
            /\ call.ret > 0)

\* Emergency charge although grid support is asked for, the price is high and
\* the battery holds more than 60 %.
C4_Witness ==
    /\ DecidedLive /\ call.before.soc <= call.before.min_soc
    /\ call.before.soc > 600
    /\ SupportCondition /\ PriceAt(call.hour) > 30
    /\ call.ret = 30000

\* C5: with soc > min_soc and soc >= 0.95 a live vehicle gets command 0.
C5_FullBatteryHalts ==
    (DecidedLive /\ call.before.soc > call.before.min_soc /\ call.before.soc >= 950)
        => call.ret = 0

\* A full battery under low voltage at a high-price hour: no discharge.
C5_Witness ==
    /\ DecidedLive /\ call.before.soc >= 950
    /\ call.before.soc > call.before.min_soc
    /\ call.voltage < 950 /\ PriceAt(call.hour) > 30
    /\ call.before.participation_willingness > 600
    /\ call.ret = 0

\* C6: past rules 1-3, if (voltage < 0.95 or demand > threshold), soc > 0.6 and
\* the draw is below the willingness, the command is the negative value
\* -min(0.6 max_power, (soc - min_soc) capacity 2, 25 kW); if neither grid
\* condition holds rule 4 issues nothing (and adds nothing to the peak-shaving
\* estimate).
C6_GridSupportDischarge ==
    /\ (DecidedPastSafety /\ SupportFired)
       => (/\ call.ret = -Min3((call.before.max_power_kw * 6) \div 10,
                               (call.before.soc - call.before.min_soc)
                                   * call.before.battery_capacity_kwh * 2,
                               25000)
           /\ call.ret < 0)
    /\ (Decided /\ ~SupportCondition)
       => (/\ call.rule # 4
           /\ call.draw4 = NoDraw
           /\ peak_shaving_achieved_kw = call.c0.peak_shaving_achieved_kw)

\* A grid-support discharge limited by the energy above min_soc.
C6_Witness ==
    /\ DecidedPastSafety /\ SupportFired
    /\ call.voltage < 950 /\ call.demand <= 100000
    /\ call.ret = -((call.before.soc - call.before.min_soc)
                        * call.before.battery_capacity_kwh * 2)
    /\ call.ret > -25000

\* C7: past rules 1-4 the command is the opportunistic charge if price < 0.20
\* and soc < target; else the arbitrage discharge if price > 0.30, soc > 0.7,
\* willingness > 0.6 and the draw < 0.4; else the trickle charge if
\* soc < target; else 0.  At hour 8 with soc 0.5 and no grid-support condition
\* it is the trickle charge.
C7_EconomicTail ==
    /\ (DecidedPastSafety /\ ~SupportFired)
       => call.ret =
            IF PriceAt(call.hour) < 20 /\ call.before.soc < call.before.target_soc
            THEN Min3((call.before.max_power_kw * 8) \div 10,
                      (call.before.target_soc - call.before.soc)
                          * call.before.battery_capacity_kwh * 2,
                      40000)
            ELSE IF /\ PriceAt(call.hour) > 30
                    /\ call.before.soc > 700
                    /\ call.before.participation_willingness > 600
                    /\ call.draw6 < 400
            THEN -Min2((call.before.max_power_kw * 5) \div 10, 20000)
            ELSE IF call.before.soc < call.before.target_soc
            THEN Min2(15000, (call.before.max_power_kw * 3) \div 10)
            ELSE 0
    /\ (DecidedPastSafety /\ ~SupportCondition /\ call.hour = 8
        /\ call.before.soc = 500 /\ call.before.soc < call.before.target_soc)
       => call.ret = Min2(15000, (call.before.max_power_kw * 3) \div 10)

\* Hour 8 (0.35 $/kWh), soc 0.5, no grid-support condition: trickle charge.
C7_Witness ==
    /\ DecidedPastSafety /\ ~SupportCondition
    /\ call.hour = 8 /\ call.before.soc = 500
    /\ call.rule = 7
    /\ call.ret = Min2(15000, (call.before.max_power_kw * 3) \div 10)

\* ====================================================== claims C8 - C10
\* The largest demand among the steps whose power flow converged, from 0.
SolvedPeak ==
    LET solved == { power_flow_history[i] :
                      i \in { j \in 1..Len(power_flow_history) : solved_history[j] } }
    IN  IF solved = {} THEN 0
        ELSE Max2(0, CHOOSE x \in solved : \A y \in solved : x >= y)

\* The largest demand recorded in power_flow_history.
RecordedPeak == IF Len(power_flow_history) > 0 THEN SeqMax(power_flow_history) ELSE 0

\* C8 (as stated): the result of a run that reaches the metrics has
\* peak_shaving_achieved_mw = max(0, baseline peak - maximum demand recorded
\* over the steps), and it is >= 0.
C8_AsStated ==
    pc = "done"
        => (/\ result.peak_shaving_achieved_mw
                   = Max2(0, baseline_peak_mw - RecordedPeak)
            /\ result.peak_shaving_achieved_mw >= 0)

\* C8 (amended): peak_shaving_achieved_mw is never negative; for a run that
\* reaches the metrics it is max(0, baseline peak - actual peak), where the
\* baseline peak is the demand of the reference solve (0 if that solve fails)
\* and the actual peak is the largest demand among the steps whose power flow
\* converged, counted from 0; a run that ends in the exception handler gets 0.
C8_PeakShavingNonNegative ==
    /\ result.peak_shaving_achieved_mw >= 0
    /\ pc = "done"
         => (/\ actual_peak_mw = SolvedPeak
             /\ result.peak_shaving_achieved_mw
                    = Max2(0, baseline_peak_mw - SolvedPeak))
    /\ pc = "failed" => result.peak_shaving_achieved_mw = 0

\* A finished run in which a step whose power flow failed recorded a demand
\* above the baseline peak, while the solved steps stayed below it.
C8_Witness ==
    /\ pc = "done"
    /\ baseline_peak_mw > 0
    /\ \E i \in 1..Len(power_flow_history) :
          ~solved_history[i] /\ power_flow_history[i] > baseline_peak_mw
    /\ \E i \in 1..Len(power_flow_history) : solved_history[i]
    /\ actual_peak_mw < baseline_peak_mw
    /\ result.peak_shaving_achieved_mw = baseline_peak_mw - actual_peak_mw
    /\ result.peak_shaving_achieved_mw > 0
\* The batch was run on scenarios none of which is labelled Baseline and its
\* summary has been generated.
BaselineAbsent ==
    /\ bstate = "summarized"
    /\ \A i \in 1..Len(scenarios) : scenarios[i].scenario_name # "Baseline"

\* C9 (as stated): if no scenario of the batch carries the baseline label then,
\* once the batch is complete and the summary generated, every result's and
\* every scenario's peak shaving and grid cost savings are 0.
C9_AsStated ==
    BaselineAbsent
        => (/\ \A i \in 1..Len(all_results) :
                  /\ all_results[i].peak_shaving_achieved_mw = 0
                  /\ all_results[i].grid_cost_savings = 0
            /\ \A name \in DOMAIN summary :
                  /\ summary[name].peak_shaving_mean_mw = 0
                  /\ summary[name].grid_savings_mean = 0)

\* Both executions of the pair have produced their perturbation, their
\* registration and their command.
BothDone == ex[1].at = "done" /\ ex[2].at = "done"

\* C10 (as stated): two executions of the same (scenario label, run id) have
\* identical load perturbations, vehicle registrations and dispatch commands,
\* whether they share a process or not and whatever ran before them.
C10_AsStated ==
    BothDone
        => (/\ ex[1].load_multiplier = ex[2].load_multiplier
            /\ ex[1].vehicle = ex[2].vehicle
            /\ ex[1].command = ex[2].command)

\* In monte_carlo.py, executions whose processes have the same hash secret
\* agree, whatever state the generator was in on entry.
C10_SeededSameSecret ==
    (BothDone /\ pair.orchestrator = "monte_carlo" /\ ex[1].secret = ex[2].secret)
        => (/\ ex[1].load_multiplier = ex[2].load_multiplier
            /\ ex[1].vehicle = ex[2].vehicle
            /\ ex[1].command = ex[2].command)

\* ====================================================== claims C11 - C20
\* C11: a power flow that does not converge never ends the run.  While the
\* loop runs and after it, the histories hold exactly one voltage and one
\* demand record per executed step, in step order: the solved values for a
\* converged step, 0.9 and a fallback demand (the no-EV demand of the step)
\* for a failed one; a next step or the metrics are always possible from the
\* loop; the metrics are computed only after all total_steps steps (48 in the
\* code), and then one result for (scenario, run_id) is returned.
C11_SolverFailureContinues ==
    /\ simulation_hours * time_steps_per_hour = 48
    /\ pc \in {"loop", "done"}
         => (/\ step <= total_steps
             /\ Len(voltage_history) = step
             /\ Len(power_flow_history) = step
             /\ Len(solved_history) = step
             /\ \A i \in 1..step :
                   IF solved_history[i]
                   THEN voltage_history[i] \in SolvedVoltages
                   ELSE /\ voltage_history[i] = 900
                        /\ power_flow_history[i] \in StepLoads \cup {100000}
             /\ (step > 0 /\ ~solved_history[step])
                   => power_flow_history[step] = baseline_demand)
    /\ pc = "loop" => (MoreSteps \/ LoopOver)
    /\ pc = "done"
         => (/\ step = total_steps
             /\ result.scenario_name = scenario.scenario_name
             /\ result.run_id = run_id
             /\ result.min_voltage_pu = SeqMin(voltage_history))

\* A run all of whose power flows failed still ran every step and returned
\* its metrics.
C11_Witness ==
    /\ pc = "done"
    /\ step = total_steps
    /\ \A i \in 1..step : ~solved_history[i]
    /\ Len(voltage_history) = total_steps
    /\ result.min_voltage_pu = 900
    /\ result.voltage_violations = total_steps

\* The results gathered so far by the analysis.
Gathered == IF bstate = "running" /\ parallel THEN pool_results ELSE all_results

\* C12: a run that raises (import error or any exception in the worker's try)
\* yields the neutral result for its (scenario, run id): min and max voltage
\* 1.0, no violations, ending soc 0.5, peak shaving 0; the other runs of the
\* batch still execute: every task contributes one result, in task order, and
\* the analysis ends with one result for each of them.
C12_FailureIsolation ==
    /\ Len(Gathered) = task
    /\ Len(raised) = task
    /\ \A i \in 1..Len(Gathered) :
          /\ Gathered[i].scenario_name
                 = scenarios[((i - 1) \div runs_per_scenario) + 1].scenario_name
          /\ Gathered[i].run_id = (i - 1) % runs_per_scenario
          /\ raised[i]
               => (/\ Gathered[i].min_voltage_pu = 1000
                   /\ Gathered[i].max_voltage_pu = 1000
                   /\ Gathered[i].voltage_violations = 0
                   /\ Gathered[i].avg_ev_soc_end = 500
                   /\ Gathered[i].peak_shaving_achieved_mw = 0)
    /\ bstate \in {"collected", "summarized"}
         => (/\ task = Len(scenarios) * runs_per_scenario
             /\ results_df.rows = all_results)

\* The first run of a batch raised, the second one ran after it and brought
\* its own metrics.
C12_Witness ==
    /\ bstate = "summarized"
    /\ Len(all_results) >= 2
    /\ raised[1] /\ ~raised[2]
    /\ all_results[1].min_voltage_pu = 1000
    /\ all_results[1].avg_ev_soc_end = 500
    /\ all_results[1].peak_shaving_achieved_mw = 0
    /\ all_results[2].peak_shaving_achieved_mw > 0
    /\ all_results[2].avg_ev_soc_end # 500

\* C13 (as stated): initialize_ev for an id that is already registered leaves
\* that vehicle's state unchanged.
C13_AsStated ==
    (call.op = "register" /\ call.known) => ev_states[call.id] = call.before

\* C14 (as stated): after calculate_power_command or update_ev_soc was asked
\* for an id that was not registered, the id is in the registry.
C14_AsStated ==
    (call.op \in {"decide", "applySoc"} /\ ~call.known)
        => call.id \in DOMAIN ev_states

\* The scenario parameters the comments of SimulationScenario.__init__ allow.
WellFormed(scn) ==
    /\ 0 <= scn.bdwpt_penetration /\ scn.bdwpt_penetration <= 1000
    /\ scn.traffic_density \in {"low", "medium", "high"}
    /\ scn.day_type \in {"weekday", "weekend"}
    /\ scn.weather_condition \in {"clear", "rain", "cold"}

\* C15 (as stated): a batch whose scenario list holds a malformed scenario
\* executes no run.
C15_AsStated ==
    (\E i \in 1..Len(scenarios) : ~WellFormed(scenarios[i])) => task = 0

\* C16: the arrays of the framework's base_network always hold the template,
\* and no network of a run or of a step refers to one of them.
C16_BaseNetworkReadOnly ==
    /\ base_network = NetworkAt(0, "base")
    /\ \A t \in Tables : heap[base_network[t]] = BaseTable(t)
    /\ \A w \in Workers, t \in Tables :
          /\ worker_network[w][t] # base_network[t]
          /\ varied_network[w][t] # base_network[t]
          /\ current_network[w][t] # base_network[t]

C16_Witness ==
    /\ framework = "mc"
    /\ npc[1] = "injected"
    /\ heap[varied_network[1].bus] # BaseBus
    /\ heap[current_network[1].bus] # heap[varied_network[1].bus]
    /\ npc[2] = "pv"
    /\ heap[current_network[2].bus] # heap[varied_network[2].bus]

\* The ids the worker gives the vehicles of the steps before stp.
RunVehicleIds(stp) == (0..(stp - 1)) \X (0..(MaxEvsPerStep - 1))

RunKeys(rows) == { << rows[i].scenario_name, rows[i].run_id >> : i \in 1..Len(rows) }
AnalysisKeys ==
    { << scenarios[i].scenario_name, r >> :
        i \in 1..Len(scenarios), r \in 0..(runs_per_scenario - 1) }

\* C18 (as stated): after every completed call of run_monte_carlo_analysis,
\* self.all_results and the results table hold exactly one record for each
\* (scenario, run id) pair.
C18_AsStated ==
    bstate \in {"collected", "summarized"} =>
        /\ Len(all_results) = NumTasks
        /\ Len(results_df.rows) = NumTasks
        /\ RunKeys(all_results) = AnalysisKeys
        /\ RunKeys(results_df.rows) = AnalysisKeys

\* The same statement for the first call on a framework object.
C18_FirstCall ==
    analysis_calls = 1 => C18_AsStated

\* C19 (as stated): after calculate_power_command on a registered vehicle,
\* the vehicle's charging_power_kw is the value the call returned.
C19_AsStated ==
    (call.op = "decide" /\ call.known)
        => ev_states[call.id].charging_power_kw = call.ret

\* The same statement for the calls that get past the enrolment, connection
\* and window tests.
C19_PastTheGate ==
    (call.op = "decide" /\ call.known /\ call.rule # 1)
        => ev_states[call.id].charging_power_kw = call.ret

\* C20 (as stated): a positive return counts one G2V event, a negative return
\* one V2G event, a zero return none; peak_shaving_achieved_kw grows only
\* when the grid-support rule fires, by the magnitude of the discharge.
C20_AsStated ==
    (call.op = "decide" /\ call.known) =>
        /\ g2v_events = call.c0.g2v_events + (IF call.ret > 0 THEN 1 ELSE 0)
        /\ v2g_events = call.c0.v2g_events + (IF call.ret < 0 THEN 1 ELSE 0)
        /\ peak_shaving_achieved_kw =
              call.c0.peak_shaving_achieved_kw
                  + (IF call.rule = 4 THEN Abs(call.ret) ELSE 0)

\* The same statement for the calls that do not end in the slow charge.
C20_ExceptSlowCharge ==
    (call.op = "decide" /\ call.known /\ call.rule # 7) => C20_AsStated

\* ====================================================== claims C21 - C30
\* C21 (as stated): a calculate_power_command call that reaches the
\* grid-support test with a voltage or demand violation takes the draw of
\* rule 4, whatever the vehicle's soc.
C21_AsStated ==
    (/\ call.op = "decide" /\ call.known /\ call.rule >= 4
     /\ GridSupportNeeded(call.voltage, call.demand))
        => call.draw4 # NoDraw

\* What the calls that reach the test do: the draw is taken exactly when
\* there is a violation and soc > 0.6.
C21_DrawOnlyAboveSoc ==
    (call.op = "decide" /\ call.known /\ call.rule >= 4)
        => ((call.draw4 # NoDraw) <=>
               (GridSupportNeeded(call.voltage, call.demand) /\ call.before.soc > 600))

\* The multiplier the hour has in the description of the synthetic traffic
\* count, times 10: the night hours are 22, 23 and 0..6.
StatedTrafficMultiplier(hour) ==
    IF (7 <= hour /\ hour <= 9) \/ (17 <= hour /\ hour <= 19) THEN 20
    ELSE IF hour >= 22 \/ hour <= 6 THEN 2
    ELSE IF 10 <= hour /\ hour <= 16 THEN 12
    ELSE 8

\* C22 (as stated): _simulate_traffic_pattern returns
\* int(base * multiplier + noise) with multiplier 0.2 for the hours 22, 23
\* and 0..6, and the result is never negative.
C22_AsStated ==
    fcall.op = "traffic" =>
        /\ fcall.out =
              (base_traffic(fcall.args[2]) * StatedTrafficMultiplier(fcall.args[1])
                   + fcall.args[3] * 10) \div 10
        /\ fcall.out >= 0

\* The same statement for the hours 7..21.
C22_DayHours ==
    (fcall.op = "traffic" /\ fcall.args[1] >= 7 /\ fcall.args[1] <= 21)
        => C22_AsStated

C23_AsStated ==
    \A k \in 1..Len(v2_log) :
        v2_log[k].local_voltage # NoLocalVoltage =>
            v2_log[k].local_voltage =
                IF k = 1 THEN InitialVoltage
                ELSE IF v2_log[k - 1].success THEN v2_log[k - 1].min_voltage
                ELSE FallbackVoltage

\* C25: at every grid-update step of a run of the enhanced orchestrator one
\* voltage record and one demand record are appended, whether the power flow
\* converged or not: the histories have one entry per step taken.
C25_AsStated ==
    v2pc = "loop" =>
        /\ Len(v2_voltage_history) = v2_step
        /\ Len(v2_power_history) = v2_step

\* C26: when run_analysis is over, however its runs ended, the results table
\* exists and has one row per (scenario, run).
C26_AsStated ==
    v2pc \in {"finished", "aborted"} =>
        /\ v2_results_df.created
        /\ Len(v2_results_df.rows) = V2NumTasks

C28_AsStated ==
    (v2pc = "loop" /\ Len(v2_log) > 0 /\ v2_log[Len(v2_log)].command < 0) =>
        \A id \in DOMAIN ev_states : ev_states[id].soc >= ev_states[id].min_soc

\* C29: update_ev_soc with power 0 or an unregistered id changes no vehicle
\* and no counter; with a non-zero power on a registered id it changes only
\* that vehicle's soc and total_energy_traded_kwh, which grows by the energy
\* of the call (power x time x efficiency when charging, |power| x time /
\* efficiency when discharging) whether or not the soc was clamped; and no
\* operation of the controller ever lowers total_energy_traded_kwh.
C29_ApplySocFrame ==
    [][ /\ total_energy_traded_kwh' >= total_energy_traded_kwh
        /\ (call'.op = "applySoc" /\ ncalls' # ncalls) =>
               IF call'.power = 0 \/ call'.id \notin DOMAIN ev_states
               THEN ev_states' = ev_states /\ Counters' = Counters
               ELSE /\ DOMAIN ev_states' = DOMAIN ev_states
                    /\ \A x \in DOMAIN ev_states \ {call'.id} :
                           ev_states'[x] = ev_states[x]
                    /\ ev_states'[call'.id] =
                           [ ev_states[call'.id] EXCEPT
                               !.soc = ev_states'[call'.id].soc ]
                    /\ peak_shaving_achieved_kw' = peak_shaving_achieved_kw
                    /\ v2g_events' = v2g_events
                    /\ g2v_events' = g2v_events
                    /\ total_energy_traded_kwh' - total_energy_traded_kwh =
                           IF call'.power > 0
                           THEN ChargeEnergy(ev_states[call'.id], call'.power, call'.dt)
                           ELSE DischargeEnergy(ev_states[call'.id], call'.power,
                                                call'.dt) ]_vars

\* An update_ev_soc that was clamped: the total grew by more energy than the
\* change of soc accounts for, with another vehicle in the registry.
C29_Witness ==
    /\ call.op = "applySoc"
    /\ call.known
    /\ call.power # 0
    /\ ev_states[call.id].soc \in {0, 1000}
    /\ total_energy_traded_kwh - call.c0.total_energy_traded_kwh >
           Abs(ev_states[call.id].soc - call.before.soc)
               * call.before.battery_capacity_kwh
    /\ DOMAIN ev_states # {call.id}

\* The bus table update_loads_for_time makes of a source table and the
\* multiplier of the hour, and the bus tables a run's template can hold:
\* the framework's template after the variations of the run (monte_carlo.py)
\* or as it is (monte_carlo_v2.py).
TimedLoads(bus, m) ==
    [ i \in DOMAIN bus |->
        IF i > 2 /\ bus[i][1] = 1 THEN << 1, (bus[i][2] * m) \div 1000 >> ELSE bus[i] ]

TemplateBuses ==
    IF framework = "mc"
    THEN { ScaleLoads(ScaleLoads(BaseBus, m), weather_factor(weather)) :
             m \in LoadMultipliers, weather \in WeatherConditions }
    ELSE { BaseBus }

\* C30: throughout a run the bus loads of the run's template are those it
\* was built with, whatever power the steps have added for vehicles, and the
\* network a step starts from holds the template's loads times the multiplier
\* of the hour and nothing else.
C30_NoAccumulation ==
    \A w \in Workers :
        /\ npc[w] \in {"run", "timed", "pv", "injected"} =>
               heap[varied_network[w].bus] \in TemplateBuses
        /\ npc[w] = "timed" =>
               \E m \in FinalMultipliers :
                   heap[current_network[w].bus] =
                       TimedLoads(heap[varied_network[w].bus], m)

\* The network of a step was just built in a run of which an earlier step
\* added the power of a vehicle to its network.
C30_Witness ==
    \E w \in Workers :
        /\ ev_injected[w]
        /\ npc[w] = "timed"
        /\ heap[current_network[w].bus][3][2] > 0

====
